---- MODULE Spec2Model ----
(***************************************************************************)
(* Multi-strategy channel consensus engine of Gold_Quant_Project           *)
(* (src/analysis/strategies.py, src/analysis/channel_analyzer.py).         *)
(*                                                                         *)
(* Numbers are fixed point.  Prices and price differences are in           *)
(* thousandths (12345 is 12.345), percentages     of position_pct and the  *)
(* trend-strength index (ADX) are in tenths (500 is 50.0), R^2 is in       *)
(* hundredths (50 is 0.5), slopes are in 1/10000 price units per bar.      *)
(* round(x, 2) of a price is the nearest multiple of 10 thousandths and    *)
(* round(x, 1) of a percentage is the nearest tenth, ties to even as       *)
(* Python's round does.                                                    *)
(*                                                                         *)
(* The numeric library calls (numpy.polyfit, numpy.std, pandas rolling     *)
(* means, ta.ADXIndicator, ta.BollingerBands, ta.DonchianChannel) are not  *)
(* recomputed: what they return for a bar series is a record of statistics *)
(* drawn from small sets, constrained the way the library constrains them  *)
(* (a standard deviation is >= 0, a rolling maximum of highs is >= the     *)
(* rolling minimum of lows, the last close lies between them).             *)
(***************************************************************************)
EXTENDS Integers, Sequences, FiniteSets, TLC

VARIABLES
    strategies,   \* ChannelAnalyzer.strategies: the configured strategy instances
    arg,          \* the arguments of the call that ran last
    ret,          \* what that call returned
    pc,           \* position inside multi_timeframe_report
    timeframes,   \* report["timeframes"] under construction
    summary,      \* report["summary"], once derived
    callLog,      \* the fetch and analyze calls made by the report, in order
    strat,        \* the backtrader strategy instance of a backtest run
    cerebro       \* that run: the bar count, the bar, the broker's position and orders

vars == <<strategies, arg, ret, pc, timeframes, summary, callLog, strat, cerebro>>

----------------------------------------------------------------------------
(* Bounds of the model *)

\* bar counts tried around every strategy's minimum: minimum - Slack .. minimum + Slack
Slack == 2
\* longest list of strategy results handed to _consensus
MaxResults == 4
\* most strategies whose results make up one time-frame entry handed to _generate_summary
MaxStrategies == 3

----------------------------------------------------------------------------
(* Channel type labels, strategies.py:22-25 *)

CHANNEL_UP == "Up"
CHANNEL_DOWN == "Down"
CHANNEL_SIDEWAYS == "Sideways"
CHANNEL_TRANSITION == "Transitioning"

ChannelTypes == {CHANNEL_UP, CHANNEL_DOWN, CHANNEL_SIDEWAYS, CHANNEL_TRANSITION}

\* labels of _calc_sma_cross, strategies.py:86-87
SMA_BULL == "bullish alignment"
SMA_BEAR == "bearish alignment"
SMA_NODATA == "insufficient data"

None == [none |-> TRUE]

----------------------------------------------------------------------------
(* Arithmetic helpers *)

Max2(a, b) == IF a >= b THEN a ELSE b
Min2(a, b) == IF a <= b THEN a ELSE b

\* a / b rounded to the nearest integer, ties to even (b > 0)
RoundHalfEven(a, b) ==
    LET q == a \div b
        r == a % b
    IN  IF 2 * r < b THEN q
        ELSE IF 2 * r > b THEN q + 1
        ELSE IF q % 2 = 0 THEN q ELSE q + 1

\* round(x, 2) of a price held in thousandths
Round2(x) == 10 * RoundHalfEven(x, 10)

----------------------------------------------------------------------------
(* BaseChannelStrategy *)

\* _calc_position_pct: in tenths of a percent
CalcPositionPct(price, upper, lower) ==
    LET width == upper - lower
    IN  IF width > 0
        THEN IF price <= lower THEN 0
             ELSE IF price >= upper THEN 1000
             ELSE RoundHalfEven((price - lower) * 1000, width)
        ELSE 500

\* _calc_adx: rawAdx is what ta.ADXIndicator(...).adx().iloc[-1] gives, already
\* rounded to a tenth, 0 standing for NaN or a raised exception
CalcAdx(len, lookback, rawAdx) ==
    IF Min2(len, lookback + 20) < 16 THEN 0 ELSE rawAdx

\* _calc_sma_cross: sma_s, sma_l are the rolling means of the last window
CalcSmaCross(len, short, long, sma_s, sma_l) ==
    IF len < short \/ len < long
    THEN <<None, None, SMA_NODATA>>
    ELSE <<Round2(sma_s), Round2(sma_l), IF sma_s > sma_l THEN SMA_BULL ELSE SMA_BEAR>>

\* the f-string of the insufficient-data error, kept as its parts
DataError(need, have) == [error |-> <<"insufficient bars", need, have>>]

IsError(r) == "error" \in DOMAIN r

----------------------------------------------------------------------------
(* Strategy instances: the constructors' defaults *)

DefaultAdxThreshold == 250
DefaultR2Threshold == 50
DefaultBBPeriod == 20
DefaultBBStd == 20
DefaultDCPeriod == 20
DefaultPivotWindow == 5

LinearRegressionStrategy ==
    [name |-> "regression", display_name |-> "LinearRegression",
     adx_threshold |-> DefaultAdxThreshold, r2_threshold |-> DefaultR2Threshold]

BollingerBandStrategy ==
    [name |-> "bollinger", display_name |-> "Bollinger",
     bb_period |-> DefaultBBPeriod, bb_std |-> DefaultBBStd]

DonchianChannelStrategy ==
    [name |-> "donchian", display_name |-> "Donchian", dc_period |-> DefaultDCPeriod]

TrendlineStrategy ==
    [name |-> "trendline", display_name |-> "PivotTrendline",
     pivot_window |-> DefaultPivotWindow]

----------------------------------------------------------------------------
(* Strategy 1: LinearRegressionStrategy.analyze                            *)
(* st: close[-1] (price), polyfit slope, R^2, numpy.std of the residuals   *)
(* (std_dev), the regression line's last value (center), the raw ADX and   *)
(* the two rolling means.                                                  *)

\* mutation: the warm-up of the long moving average is forgotten
RegressionMinBars_lookbackOnly(lookback, sma_long) == lookback

RegressionMinBars(lookback, sma_long) == Max2(lookback, sma_long + 10)

\* mutation: the moving-average correction is left out
RegressionChannelType_noOverride(self, r_squared, adx, slope, sma_cross) ==
    IF r_squared >= self.r2_threshold /\ adx >= self.adx_threshold
    THEN (IF slope > 0 THEN CHANNEL_UP ELSE CHANNEL_DOWN)
    ELSE IF r_squared >= self.r2_threshold THEN CHANNEL_TRANSITION
    ELSE CHANNEL_SIDEWAYS

RegressionChannelType(self, r_squared, adx, slope, sma_cross) ==
    LET first ==
            IF r_squared >= self.r2_threshold /\ adx >= self.adx_threshold
            THEN (IF slope > 0 THEN CHANNEL_UP ELSE CHANNEL_DOWN)
            ELSE IF r_squared >= self.r2_threshold THEN CHANNEL_TRANSITION
            ELSE CHANNEL_SIDEWAYS
    IN  IF sma_cross = SMA_BULL /\ first = CHANNEL_DOWN THEN CHANNEL_TRANSITION
        ELSE IF sma_cross = SMA_BEAR /\ first = CHANNEL_UP THEN CHANNEL_TRANSITION
        ELSE first

RegressionAnalyze(self, len, lookback, sma_short, sma_long, st) ==
    LET min_bars == RegressionMinBars(lookback, sma_long)
        upper == st.center + (3 * st.std_dev) \div 2
        lower == st.center - (3 * st.std_dev) \div 2
        adx == CalcAdx(len, lookback, st.adx)
        sma == CalcSmaCross(len, sma_short, sma_long, st.sma_s, st.sma_l)
    IN  IF len < min_bars
        THEN DataError(min_bars, len)
        ELSE [strategy_name |-> self.display_name,
              channel_type |-> RegressionChannelType(self, st.r_squared, adx, st.slope, sma[3]),
              current_price |-> Round2(st.price),
              upper_band |-> Round2(upper),
              lower_band |-> Round2(lower),
              center |-> Round2(st.center),
              position_pct |-> CalcPositionPct(st.price, upper, lower),
              sma_cross |-> sma[3],
              details |-> [slope |-> st.slope,
                           slope_pct |-> IF st.price > 0
                                         THEN RoundHalfEven(st.slope * 100000, st.price)
                                         ELSE 0,
                           r_squared |-> st.r_squared,
                           adx |-> adx,
                           sma_short_val |-> sma[1],
                           sma_long_val |-> sma[2],
                           band_width |-> Round2(3 * st.std_dev)]]

----------------------------------------------------------------------------
(* Strategy 2: BollingerBandStrategy.analyze                               *)
(* st: close[-1] (price), the middle band (middle > 0), K standard         *)
(* deviations (dev >= 0, so upper = middle + dev, lower = middle - dev),   *)
(* the polyfit slope of the middle band (ma_slope), the median bandwidth   *)
(* of the lookback tail in 1/10000 percent (bw_median) and the raw ADX.    *)

BollingerMinBars(bb_period) == bb_period + 10

\* len(bollinger_mavg().dropna().tail(lookback))
BandPoints(len, period, lookback) == Min2(len - period + 1, lookback)

\* mutation: a narrow band is Sideways whatever the trend strength
BollingerChannelType_narrowFirst(bw_is_narrow, ma_slope, adx) ==
    IF bw_is_narrow THEN CHANNEL_SIDEWAYS
    ELSE IF ma_slope > 0 /\ adx >= 200 THEN CHANNEL_UP
    ELSE IF ma_slope < 0 /\ adx >= 200 THEN CHANNEL_DOWN
    ELSE IF ma_slope # 0 /\ adx < 200 THEN CHANNEL_TRANSITION
    ELSE CHANNEL_SIDEWAYS

BollingerChannelType(bw_is_narrow, ma_slope, adx) ==
    IF bw_is_narrow /\ adx < 200 THEN CHANNEL_SIDEWAYS
    ELSE IF ma_slope > 0 /\ adx >= 200 THEN CHANNEL_UP
    ELSE IF ma_slope < 0 /\ adx >= 200 THEN CHANNEL_DOWN
    ELSE IF ma_slope # 0 /\ adx < 200 THEN CHANNEL_TRANSITION
    ELSE CHANNEL_SIDEWAYS

BollingerAnalyze(self, len, lookback, sma_short, sma_long, st) ==
    LET bb_period == self.bb_period
        upper == st.middle + st.dev
        lower == st.middle - st.dev
        ma_slope == IF BandPoints(len, bb_period, lookback) >= 10 THEN st.ma_slope ELSE 0
        adx == CalcAdx(len, lookback, st.adx)
        \* bandwidth = (upper - lower) / middle * 100 < bw_median * 0.7
        bw_is_narrow == (upper - lower) * 10000000 < 7 * st.bw_median * st.middle
    IN  IF len < BollingerMinBars(bb_period)
        THEN DataError(BollingerMinBars(bb_period), len)
        ELSE [strategy_name |-> self.display_name,
              channel_type |-> BollingerChannelType(bw_is_narrow, ma_slope, adx),
              current_price |-> Round2(st.price),
              upper_band |-> Round2(upper),
              lower_band |-> Round2(lower),
              center |-> Round2(st.middle),
              position_pct |-> CalcPositionPct(st.price, upper, lower),
              sma_cross |-> IF st.price > st.middle THEN "above middle" ELSE "below middle",
              details |-> [bandwidth |-> RoundHalfEven((upper - lower) * 1000000, st.middle),
                           pct_b |-> IF upper > lower
                                     THEN RoundHalfEven((st.price - lower) * 10000, upper - lower)
                                     ELSE 0,
                           ma_slope |-> ma_slope,
                           adx |-> adx,
                           bw_vs_median |-> IF bw_is_narrow THEN "narrow" ELSE "normal"]]

----------------------------------------------------------------------------
(* Strategy 3: DonchianChannelStrategy.analyze                             *)
(* st: close[-1] (price), the rolling maximum of high (upper) and minimum  *)
(* of low (lower), lower <= price <= upper, the rolling mean of close      *)
(* (close_mean > 0), the polyfit slopes of the two band series and the raw *)
(* ADX.                                                                    *)

DonchianMinBars(dc_period) == dc_period + 10

DonchianChannelType(upper_slope, lower_slope, adx) ==
    IF upper_slope > 0 /\ lower_slope > 0 /\ adx >= 200 THEN CHANNEL_UP
    ELSE IF upper_slope < 0 /\ lower_slope < 0 /\ adx >= 200 THEN CHANNEL_DOWN
    ELSE IF adx < 150 THEN CHANNEL_SIDEWAYS
    ELSE IF (upper_slope > 0) # (lower_slope > 0) THEN CHANNEL_TRANSITION
    ELSE CHANNEL_SIDEWAYS

DonchianProximity(price, upper, lower) ==
    \* dist_to_upper = (upper - price) / (upper - lower), 0.5 on a flat channel
    IF upper - lower > 0 /\ 10 * (upper - price) < upper - lower THEN "near upper"
    ELSE IF upper - lower > 0 /\ 10 * (upper - price) > 9 * (upper - lower) THEN "near lower"
    ELSE "interior"

DonchianAnalyze(self, len, lookback, sma_short, sma_long, st) ==
    LET dc_period == self.dc_period
        points == BandPoints(len, dc_period, lookback)
        upper_slope == IF points >= 10 THEN st.upper_slope ELSE 0
        lower_slope == IF points >= 10 THEN st.lower_slope ELSE 0
        adx == CalcAdx(len, lookback, st.adx)
    IN  IF len < DonchianMinBars(dc_period)
        THEN DataError(DonchianMinBars(dc_period), len)
        ELSE [strategy_name |-> self.display_name,
              channel_type |-> DonchianChannelType(upper_slope, lower_slope, adx),
              current_price |-> Round2(st.price),
              upper_band |-> Round2(st.upper),
              lower_band |-> Round2(st.lower),
              center |-> 10 * RoundHalfEven(st.upper + st.lower, 20),
              position_pct |-> CalcPositionPct(st.price, st.upper, st.lower),
              sma_cross |-> DonchianProximity(st.price, st.upper, st.lower),
              details |-> [upper_slope |-> upper_slope,
                           lower_slope |-> lower_slope,
                           channel_width |-> RoundHalfEven((st.upper - st.lower) * 1000000,
                                                           st.close_mean),
                           adx |-> adx,
                           dc_period |-> dc_period]]

----------------------------------------------------------------------------
(* Strategy 4: TrendlineStrategy.analyze                                   *)
(* st: close[-1] (price), the numbers of pivot highs and pivot lows found  *)
(* by _find_pivots, max(high), min(low), mean(close) of the window, the    *)
(* two polyfit slopes, the two trendlines' values at the last bar (which   *)
(* may cross) and the raw ADX.                                             *)

TrendlineMinBars(lookback) == lookback

\* mutation: a flat trendline counts as rising
TrendlineChannelType_flatRises(h_slope, l_slope, adx) ==
    LET both_up == h_slope >= 0 /\ l_slope >= 0
        both_down == h_slope < 0 /\ l_slope < 0
    IN  IF both_up /\ adx >= 200 THEN CHANNEL_UP
        ELSE IF both_down /\ adx >= 200 THEN CHANNEL_DOWN
        ELSE IF both_up \/ both_down THEN CHANNEL_TRANSITION
        ELSE CHANNEL_SIDEWAYS

TrendlineChannelType(h_slope, l_slope, adx) ==
    LET both_up == h_slope > 0 /\ l_slope > 0
        both_down == h_slope < 0 /\ l_slope < 0
    IN  IF both_up /\ adx >= 200 THEN CHANNEL_UP
        ELSE IF both_down /\ adx >= 200 THEN CHANNEL_DOWN
        ELSE IF both_up \/ both_down THEN CHANNEL_TRANSITION
        ELSE CHANNEL_SIDEWAYS

TrendlinePattern(h_slope, l_slope) ==
    IF h_slope > 0 /\ l_slope > 0 THEN "ascending channel"
    ELSE IF h_slope < 0 /\ l_slope < 0 THEN "descending channel"
    ELSE IF h_slope < 0 /\ l_slope > 0 THEN "converging triangle"
    ELSE IF h_slope > 0 /\ l_slope < 0 THEN "diverging wedge"
    ELSE "unclear"

TrendlineAnalyze(self, len, lookback, sma_short, sma_long, st) ==
    LET adx == CalcAdx(len, lookback, st.adx)
        pattern == TrendlinePattern(st.h_slope, st.l_slope)
    IN  IF len < TrendlineMinBars(lookback)
        THEN DataError(lookback, len)
        ELSE IF st.high_pivots < 3 \/ st.low_pivots < 3
        THEN [strategy_name |-> self.display_name,
              current_price |-> Round2(st.price),
              channel_type |-> CHANNEL_SIDEWAYS,
              upper_band |-> Round2(st.max_high),
              lower_band |-> Round2(st.min_low),
              center |-> Round2(st.mean_close),
              position_pct |-> 500,
              sma_cross |-> "insufficient pivots",
              details |-> [high_pivots |-> st.high_pivots,
                           low_pivots |-> st.low_pivots,
                           note |-> "insufficient pivots, no trendline fitted"]]
        ELSE [strategy_name |-> self.display_name,
              current_price |-> Round2(st.price),
              channel_type |-> TrendlineChannelType(st.h_slope, st.l_slope, adx),
              upper_band |-> Round2(st.upper_at_end),
              lower_band |-> Round2(st.lower_at_end),
              center |-> 10 * RoundHalfEven(st.upper_at_end + st.lower_at_end, 20),
              position_pct |-> CalcPositionPct(st.price, st.upper_at_end, st.lower_at_end),
              sma_cross |-> pattern,
              details |-> [high_slope |-> st.h_slope,
                           low_slope |-> st.l_slope,
                           high_pivots |-> st.high_pivots,
                           low_pivots |-> st.low_pivots,
                           pattern |-> pattern,
                           adx |-> adx]]

----------------------------------------------------------------------------
(* The time-frame ladder, channel_analyzer.py:39-77 *)

TIMEFRAME_CONFIGS ==
    << [name |-> "1H", label |-> "intraday", interval |-> "1h", period |-> "2mo",
        lookback |-> 240, sma_short |-> 20, sma_long |-> 60],
       [name |-> "4H", label |-> "swing", interval |-> "1h", period |-> "6mo",
        lookback |-> 180, sma_short |-> 20, sma_long |-> 60, resample |-> "4h"],
       [name |-> "Daily", label |-> "medium term", interval |-> "1d", period |-> "2y",
        lookback |-> 120, sma_short |-> 20, sma_long |-> 60],
       [name |-> "Weekly", label |-> "long term", interval |-> "1wk", period |-> "4y",
        lookback |-> 80, sma_short |-> 10, sma_long |-> 30] >>

Configs == {TIMEFRAME_CONFIGS[i] : i \in DOMAIN TIMEFRAME_CONFIGS}

\* analyze's own defaults: lookback=60, sma_short=20, sma_long=60
DefaultArgs == [lookback |-> 60, sma_short |-> 20, sma_long |-> 60]

----------------------------------------------------------------------------
(* The statistics a bar series can have, per strategy *)

Abs(x) == IF x < 0 THEN -x ELSE x

SlopeValues == {-5, 0, 5}

\* a residual is at most sqrt(n) standard deviations; a zero slope leaves R^2 at 0;
\* R^2 is 1 exactly when no residual is left
RegressionStats ==
    {st \in [price : {9940, 9998, 10000, 10002, 10030},
             slope : SlopeValues,
             r_squared : {0, 49, 50, 100},
             std_dev : {0, 2, 40},
             center : {10000},
             adx : {0, 249, 250},
             sma_s : {9900, 9950, 10000},
             sma_l : {9950}] :
        /\ Abs(st.price - st.center) <= 8 * st.std_dev
        /\ (st.slope = 0) => (st.r_squared = 0)
        /\ (st.r_squared = 100) <=> (st.std_dev = 0 /\ st.slope # 0)}

\* the last close is one of the bb_period closes whose mean is middle and whose
\* standard deviation is dev / K
BollingerStats ==
    {st \in [price : {9870, 9998, 10000, 10002, 10030, 10130},
             middle : {10000},
             dev : {0, 3, 60},
             ma_slope : SlopeValues,
             bw_median : {600, 12000, 20000},
             adx : {0, 199, 200}] :
        Abs(st.price - st.middle) * 100 <= 218 * st.dev}

\* low <= close <= high on every bar
DonchianStats ==
    {st \in [price : {9900, 9950, 10000, 10003, 10095, 10100},
             upper : {10000, 10004, 10100},
             lower : {9900, 10000},
             close_mean : {10000},
             upper_slope : SlopeValues,
             lower_slope : SlopeValues,
             adx : {0, 149, 150, 199, 200}] :
        /\ st.lower <= st.price /\ st.price <= st.upper
        /\ st.lower <= st.close_mean /\ st.close_mean <= st.upper}

\* with fewer than 3 pivots on a side no trendline is fitted: the fit's fields
\* are then fixed and unused
TrendlineStats ==
    {st \in [price : {9850, 10000, 10003, 10150},
             high_pivots : {0, 2, 3},
             low_pivots : {2, 3, 4},
             max_high : {10200},
             min_low : {9800},
             mean_close : {10000},
             h_slope : SlopeValues,
             l_slope : SlopeValues,
             upper_at_end : {9950, 10004, 10100},
             lower_at_end : {10000},
             adx : {0, 199, 200}] :
        (st.high_pivots < 3 \/ st.low_pivots < 3) =>
            /\ st.h_slope = 0 /\ st.l_slope = 0
            /\ st.upper_at_end = 10100 /\ st.adx = 0}

StrategyInstances ==
    {LinearRegressionStrategy, BollingerBandStrategy,
     DonchianChannelStrategy, TrendlineStrategy}

StatsOf(self) ==
    CASE self.name = "regression" -> RegressionStats
      [] self.name = "bollinger" -> BollingerStats
      [] self.name = "donchian" -> DonchianStats
      [] self.name = "trendline" -> TrendlineStats

\* the stated minimum bar count of a strategy under a configuration
MinBars(self, lookback, sma_long) ==
    CASE self.name = "regression" -> RegressionMinBars(lookback, sma_long)
      [] self.name = "bollinger" -> BollingerMinBars(self.bb_period)
      [] self.name = "donchian" -> DonchianMinBars(self.dc_period)
      [] self.name = "trendline" -> TrendlineMinBars(lookback)

BarCounts(self, cfg) ==
    LET m == MinBars(self, cfg.lookback, cfg.sma_long)
    IN  {0} \cup {n \in (m - Slack)..(m + Slack) : n >= 0}

\* strat.analyze(df, lookback=..., sma_short=..., sma_long=...)
StrategyCall(self, cfg, n, st) ==
    [self |-> self, len |-> n, lookback |-> cfg.lookback,
     sma_short |-> cfg.sma_short, sma_long |-> cfg.sma_long, st |-> st]

----------------------------------------------------------------------------
(* Specification of one analyze call: the arguments are drawn, one of the   *)
(* four strategies runs.                                                    *)

Idle ==
    /\ strategies = <<>>
    /\ timeframes = <<>>
    /\ summary = None
    /\ callLog = <<>>
    /\ strat = None
    /\ cerebro = None

InitStrategy ==
    /\ \E self \in StrategyInstances, cfg \in Configs \cup {DefaultArgs} :
           \E n \in BarCounts(self, cfg), st \in StatsOf(self) :
               arg = StrategyCall(self, cfg, n, st)
    /\ ret = None
    /\ pc = "analyze"
    /\ Idle

Returns(value) ==
    /\ ret' = value
    /\ pc' = "returned"
    /\ UNCHANGED <<strategies, arg, timeframes, summary, callLog, strat, cerebro>>

AnalyzeRegression ==
    /\ pc = "analyze" /\ arg.self.name = "regression"
    /\ Returns(RegressionAnalyze(arg.self, arg.len, arg.lookback,
                                 arg.sma_short, arg.sma_long, arg.st))

AnalyzeBollinger ==
    /\ pc = "analyze" /\ arg.self.name = "bollinger"
    /\ Returns(BollingerAnalyze(arg.self, arg.len, arg.lookback,
                                arg.sma_short, arg.sma_long, arg.st))

AnalyzeDonchian ==
    /\ pc = "analyze" /\ arg.self.name = "donchian"
    /\ Returns(DonchianAnalyze(arg.self, arg.len, arg.lookback,
                               arg.sma_short, arg.sma_long, arg.st))

AnalyzeTrendline ==
    /\ pc = "analyze" /\ arg.self.name = "trendline"
    /\ Returns(TrendlineAnalyze(arg.self, arg.len, arg.lookback,
                                arg.sma_short, arg.sma_long, arg.st))

NextStrategy ==
    \/ AnalyzeRegression
    \/ AnalyzeBollinger
    \/ AnalyzeDonchian
    \/ AnalyzeTrendline

SpecStrategy == InitStrategy /\ [][NextStrategy]_vars

----------------------------------------------------------------------------
(* Specification of one analyze call of the two band strategies, with the   *)
(* window the constructor's default or the caller's, and with lookbacks     *)
(* down to a few bars, where the band series is too short for a slope.      *)

\* BollingerBandStrategy(bb_period=...), DonchianChannelStrategy(dc_period=...)
BandInstances ==
    {BollingerBandStrategy, [BollingerBandStrategy EXCEPT !.bb_period = 10],
     DonchianChannelStrategy, [DonchianChannelStrategy EXCEPT !.dc_period = 10]}

\* analyze(df, lookback=...): the ladder's, the default, and a short one
BandArgs ==
    Configs \cup {DefaultArgs, [lookback |-> 5, sma_short |-> 20, sma_long |-> 60]}

BandLens(self, cfg) ==
    LET m == MinBars(self, cfg.lookback, cfg.sma_long)
    IN  {m - 1, m, m + 1, 300}

InitBands ==
    /\ \E self \in BandInstances, cfg \in BandArgs :
           \E n \in BandLens(self, cfg), st \in StatsOf(self) :
               arg = StrategyCall(self, cfg, n, st)
    /\ ret = None
    /\ pc = "analyze"
    /\ Idle

NextBands ==
    \/ AnalyzeBollinger
    \/ AnalyzeDonchian

SpecBands == InitBands /\ [][NextBands]_vars

----------------------------------------------------------------------------
(* Specification of one LinearRegressionStrategy.analyze call, the instance *)
(* built with thresholds of the caller's choice (zero switches a test off), *)
(* the moving-average periods the ladder's, analyze's defaults, or periods  *)
(* given the other way round or equal.  The bars are any series, or a       *)
(* series whose closes lie on one ascending line.                           *)

\* LinearRegressionStrategy(adx_threshold=..., r2_threshold=...)
RegressionInstances ==
    {[LinearRegressionStrategy EXCEPT !.adx_threshold = a, !.r2_threshold = r] :
        a \in {0, 250, 300}, r \in {0, 50, 80}}

\* analyze(df, lookback=..., sma_short=..., sma_long=...) as the caller likes
RegressionArgs ==
    Configs \cup {DefaultArgs,
                  [lookback |-> 60, sma_short |-> 60, sma_long |-> 20],
                  [lookback |-> 60, sma_short |-> 20, sma_long |-> 20],
                  [lookback |-> 60, sma_short |-> 400, sma_long |-> 20]}

\* closes on a line rising by step (an even number of thousandths) per bar:
\* the fit is the line itself, so the slope is step, R^2 is 1, no residual is
\* left and the line ends at the last close; the mean of the last k closes is
\* the close (k - 1) / 2 bars before the last.  The ADX depends on the highs
\* and lows and is free.
LinearSeriesStats(step, sma_short, sma_long, adx) ==
    [price |-> 10000,
     slope |-> 10 * step,
     r_squared |-> 100,
     std_dev |-> 0,
     center |-> 10000,
     adx |-> adx,
     sma_s |-> 10000 - (step * (sma_short - 1)) \div 2,
     sma_l |-> 10000 - (step * (sma_long - 1)) \div 2]

RegressionLens(cfg) ==
    {RegressionMinBars(cfg.lookback, cfg.sma_long) - 1,
     RegressionMinBars(cfg.lookback, cfg.sma_long), 300}

InitRegression ==
    /\ \E self \in RegressionInstances, cfg \in RegressionArgs :
       \E n \in RegressionLens(cfg) :
           \/ \E st \in RegressionStats :
                  arg = [self |-> self, len |-> n, lookback |-> cfg.lookback,
                         sma_short |-> cfg.sma_short, sma_long |-> cfg.sma_long,
                         st |-> st, series |-> "any"]
           \/ \E adx \in {0, 249, 250, 400} :
                  arg = [self |-> self, len |-> n, lookback |-> cfg.lookback,
                         sma_short |-> cfg.sma_short, sma_long |-> cfg.sma_long,
                         st |-> LinearSeriesStats(2, cfg.sma_short, cfg.sma_long, adx),
                         series |-> "linear ascending"]
    /\ ret = None
    /\ pc = "analyze"
    /\ Idle

NextRegression == AnalyzeRegression

SpecRegression == InitRegression /\ [][NextRegression]_vars

----------------------------------------------------------------------------
(* The strategy registry: get_strategies, strategies.py:511-539             *)

\* what a call gives back: a value, or the exception it raised
Returned(v) == [value |-> v]
Raised(e) == [raised |-> e]
HasRaised(r) == "raised" \in DOMAIN r

UPPERCASE == "ABCDEFGHIJKLMNOPQRSTUVWXYZ"
LOWERCASE == "abcdefghijklmnopqrstuvwxyz"

CharAt(s, i) == SubSeq(s, i, i)

\* the characters str.strip() removes
IsSpace(c) == c \in {" ", "\t", "\n", "\r"}

\* mutation: only the leading white space is removed
Strip_leadingOnly(s) ==
    LET idx == {i \in 1..Len(s) : ~IsSpace(CharAt(s, i))}
    IN  IF idx = {} THEN ""
        ELSE SubSeq(s, CHOOSE i \in idx : \A j \in idx : i <= j, Len(s))

\* str.strip()
Strip(s) ==
    LET idx == {i \in 1..Len(s) : ~IsSpace(CharAt(s, i))}
    IN  IF idx = {} THEN ""
        ELSE SubSeq(s, CHOOSE i \in idx : \A j \in idx : i <= j,
                       CHOOSE i \in idx : \A j \in idx : i >= j)

LowerChar(c) ==
    IF \E i \in 1..Len(UPPERCASE) : CharAt(UPPERCASE, i) = c
    THEN CharAt(LOWERCASE, CHOOSE i \in 1..Len(UPPERCASE) : CharAt(UPPERCASE, i) = c)
    ELSE c

\* str.lower()
Lower(s) ==
    LET F[i \in 0..Len(s)] == IF i = 0 THEN "" ELSE F[i - 1] \o LowerChar(CharAt(s, i))
    IN  F[Len(s)]

\* the registry: each class is held as the instance its constructor gives by default
ALL_STRATEGIES ==
    [regression |-> LinearRegressionStrategy,
     bollinger |-> BollingerBandStrategy,
     donchian |-> DonchianChannelStrategy,
     trendline |-> TrendlineStrategy]

\* mutation: the default names in alphabetical order
DEFAULT_STRATEGY_NAMES_sorted == <<"bollinger", "donchian", "regression", "trendline">>

DEFAULT_STRATEGY_NAMES == <<"regression", "bollinger", "donchian", "trendline">>

\* the keyword parameters of a class's __init__
InitParams(cls) == DOMAIN cls \ {"name", "display_name"}

\* cls(**kwargs): a keyword that __init__ does not take raises TypeError
Construct(cls, kwargs) ==
    IF DOMAIN kwargs \subseteq InitParams(cls)
    THEN Returned([f \in DOMAIN cls |-> IF f \in DOMAIN kwargs THEN kwargs[f] ELSE cls[f]])
    ELSE Raised("TypeError")

\* the loop of get_strategies after i names: the instances appended, the unknown
\* names warned of, and whether a constructor has raised
GetStrategiesLoop(names, kwargs) ==
    LET F[i \in 0..Len(names)] ==
            IF i = 0 THEN [strategies |-> <<>>, warnings |-> <<>>, raised |-> FALSE]
            ELSE LET acc == F[i - 1]
                     n == Lower(Strip(names[i]))
                 IN  IF acc.raised THEN acc
                     ELSE IF n \in DOMAIN ALL_STRATEGIES
                     THEN LET made == Construct(ALL_STRATEGIES[n], kwargs)
                          IN  IF HasRaised(made) THEN [acc EXCEPT !.raised = TRUE]
                              ELSE [acc EXCEPT !.strategies = Append(@, made.value)]
                     ELSE [acc EXCEPT !.warnings = Append(@, <<"unknown strategy", n>>)]
    IN  F[Len(names)]

\* the names argument: None, or a list
List(l) == [list |-> l]

\* names = names or DEFAULT_STRATEGY_NAMES: None and the empty list are both falsy
EffectiveNames(names) ==
    IF names = None THEN DEFAULT_STRATEGY_NAMES
    ELSE IF names.list = <<>> THEN DEFAULT_STRATEGY_NAMES
    ELSE names.list

GetStrategies(names, kwargs) ==
    LET end == GetStrategiesLoop(EffectiveNames(names), kwargs)
    IN  IF end.raised THEN Raised("TypeError") ELSE Returned(end.strategies)

GetStrategiesWarnings(names, kwargs) ==
    GetStrategiesLoop(EffectiveNames(names), kwargs).warnings

----------------------------------------------------------------------------
(* Specification of the registry: a name list and construction parameters   *)
(* are drawn; get_strategies is called directly, or by                      *)
(* ChannelAnalyzer.__init__, which keeps what it returns.                   *)

\* longest list of requested names
MaxNames == 3

RequestedNames ==
    {" Regression ", "BOLLINGER", "donchian\n", "trendline", "trend line", "macd", "  "}

NameLists == {None} \cup {List(l) : l \in UNION {[1..n -> RequestedNames] : n \in 0..MaxNames}}

\* no parameter, one tunable parameter, or two
KwargsChoices ==
    {<<>>,
     [adx_threshold |-> 300], [r2_threshold |-> 70],
     [bb_period |-> 10], [bb_std |-> 25],
     [dc_period |-> 10], [pivot_window |-> 3],
     [bb_period |-> 10, bb_std |-> 25],
     [adx_threshold |-> 300, dc_period |-> 10]}

InitRegistry ==
    /\ \E names \in NameLists, kwargs \in KwargsChoices :
           arg = [names |-> names, kwargs |-> kwargs]
    /\ ret = None
    /\ pc \in {"get_strategies", "construct"}
    /\ Idle

\* get_strategies(names, **kwargs); the warnings printed go to the log
GetStrategiesCall ==
    /\ pc = "get_strategies"
    /\ ret' = GetStrategies(arg.names, arg.kwargs)
    /\ callLog' = GetStrategiesWarnings(arg.names, arg.kwargs)
    /\ pc' = "returned"
    /\ UNCHANGED <<strategies, arg, timeframes, summary, strat, cerebro>>

\* ChannelAnalyzer(strategy_names=names, **kwargs): self.strategies is what
\* get_strategies returns; its exception leaves no analyzer
ChannelAnalyzerInit ==
    /\ pc = "construct"
    /\ LET got == GetStrategies(arg.names, arg.kwargs)
       IN  /\ ret' = got
           /\ strategies' = IF HasRaised(got) THEN strategies ELSE got.value
    /\ callLog' = GetStrategiesWarnings(arg.names, arg.kwargs)
    /\ pc' = "returned"
    /\ UNCHANGED <<arg, timeframes, summary, strat, cerebro>>

NextRegistry ==
    \/ GetStrategiesCall
    \/ ChannelAnalyzerInit

SpecRegistry == InitRegistry /\ [][NextRegistry]_vars

----------------------------------------------------------------------------
(* ChannelAnalyzer._consensus, channel_analyzer.py:249-270 *)

IsValid(r) == ~IsError(r)

\* valid = [r for r in strategy_results if "error" not in r]
ValidResults(strategy_results) == SelectSeq(strategy_results, IsValid)

\* sum(1 for r in valid if r["channel_type"] == t)
CountType(valid, t) == Cardinality({i \in DOMAIN valid : valid[i].channel_type = t})

\* mutation: the majority test runs before the unanimity tests
ConsensusLabel_leaningFirst(up, down, total) ==
    IF up > down /\ 2 * up >= total THEN <<"leaning bullish", up, total>>
    ELSE IF down > up /\ 2 * down >= total THEN <<"leaning bearish", down, total>>
    ELSE IF up = total THEN <<"unanimous bullish", up, total>>
    ELSE IF down = total THEN <<"unanimous bearish", down, total>>
    ELSE <<"divergent", up, down, total - up - down>>

\* mutation: a strict majority is asked for (> total / 2)
ConsensusLabel_strictMajority(up, down, total) ==
    IF up = total THEN <<"unanimous bullish", up, total>>
    ELSE IF down = total THEN <<"unanimous bearish", down, total>>
    ELSE IF up > down /\ 2 * up > total THEN <<"leaning bullish", up, total>>
    ELSE IF down > up /\ 2 * down > total THEN <<"leaning bearish", down, total>>
    ELSE <<"divergent", up, down, total - up - down>>

\* the label's f-string, kept as its parts; up >= total / 2 is 2 * up >= total
ConsensusLabel(up, down, total) ==
    IF up = total THEN <<"unanimous bullish", up, total>>
    ELSE IF down = total THEN <<"unanimous bearish", down, total>>
    ELSE IF up > down /\ 2 * up >= total THEN <<"leaning bullish", up, total>>
    ELSE IF down > up /\ 2 * down >= total THEN <<"leaning bearish", down, total>>
    ELSE <<"divergent", up, down, total - up - down>>

NoValidData == [label |-> <<"no valid data">>, up |-> 0, down |-> 0, total |-> 0]

\* mutation: total counts every result, errors included
Consensus_totalOfAll(strategy_results) ==
    LET valid == ValidResults(strategy_results)
        up == CountType(valid, CHANNEL_UP)
        down == CountType(valid, CHANNEL_DOWN)
        total == Len(strategy_results)
    IN  IF total = 0 THEN NoValidData
        ELSE [label |-> ConsensusLabel(up, down, total),
              up |-> up, down |-> down, total |-> total]

Consensus(strategy_results) ==
    LET valid == ValidResults(strategy_results)
        up == CountType(valid, CHANNEL_UP)
        down == CountType(valid, CHANNEL_DOWN)
        total == Len(valid)
    IN  IF valid = <<>> THEN NoValidData
        ELSE [label |-> ConsensusLabel(up, down, total),
              up |-> up, down |-> down, total |-> total]

----------------------------------------------------------------------------
(* Specification of one _consensus call: a list of strategy results is      *)
(* drawn, each the error variant or a result of the given channel type as   *)
(* the Donchian strategy returns it.                                        *)

SampleDonchianStats(t) ==
    [price |-> 9950, upper |-> 10100, lower |-> 9900, close_mean |-> 10000,
     upper_slope |-> IF t = CHANNEL_DOWN THEN -5 ELSE 5,
     lower_slope |-> IF t = CHANNEL_UP THEN 5 ELSE -5,
     adx |-> IF t = CHANNEL_SIDEWAYS THEN 0 ELSE 200]

SampleResult(t) ==
    DonchianAnalyze(DonchianChannelStrategy, 30, 60, 20, 60, SampleDonchianStats(t))

SampleError == DonchianAnalyze(DonchianChannelStrategy, 29, 60, 20, 60,
                               SampleDonchianStats(CHANNEL_SIDEWAYS))

SampleResults == {SampleError} \cup {SampleResult(t) : t \in ChannelTypes}

ResultLists == UNION {[1..n -> SampleResults] : n \in 0..MaxResults}

InitConsensus ==
    /\ \E rs \in ResultLists : arg = [strategy_results |-> rs]
    /\ ret = None
    /\ pc = "consensus"
    /\ Idle

ConsensusCall ==
    /\ pc = "consensus"
    /\ Returns(Consensus(arg.strategy_results))

NextConsensus == ConsensusCall

SpecConsensus == InitConsensus /\ [][NextConsensus]_vars

----------------------------------------------------------------------------
(* ChannelAnalyzer.analyze_timeframe's three returns, channel_analyzer.py:102-137 *)

\* mutation: the entry of a failed fetch carries the error alone
FetchError_bare(config) == [error |-> "fetch failed"]

FetchError(config) ==
    [name |-> config.name, label |-> config.label, error |-> "fetch failed"]

ResampleError(config) ==
    [name |-> config.name, label |-> config.label,
     error |-> "insufficient bars after resampling"]

\* mutation: a time-frame none of whose strategies gave a result is an error
TimeframeResult_errorWhenEmpty(config, bars_total, results) ==
    IF ValidResults(results) = <<>>
    THEN [name |-> config.name, label |-> config.label, error |-> "no valid data"]
    ELSE [name |-> config.name, label |-> config.label, bars_total |-> bars_total,
          strategies |-> results, consensus |-> Consensus(results)]

TimeframeResult(config, bars_total, results) ==
    [name |-> config.name, label |-> config.label, bars_total |-> bars_total,
     strategies |-> results, consensus |-> Consensus(results)]

----------------------------------------------------------------------------
(* ChannelAnalyzer._generate_summary, channel_analyzer.py:299-347 *)

\* tf.get("consensus", {}).get(key, 0)
ConsensusCount(tf, key) ==
    IF "consensus" \in DOMAIN tf /\ key \in DOMAIN tf.consensus THEN tf.consensus[key] ELSE 0

\* tf.get("consensus", {}).get("label", "?")
ConsensusLabelOf(tf) ==
    IF "consensus" \in DOMAIN tf /\ "label" \in DOMAIN tf.consensus
    THEN tf.consensus.label ELSE <<"?">>

\* mutation: a time-frame counts as bullish by its verdict label
LeansUp_byLabel(tf) ==
    ConsensusLabelOf(tf)[1] \in {"unanimous bullish", "leaning bullish"}

LeansUp(tf) == ConsensusCount(tf, "up") > ConsensusCount(tf, "down")
LeansDown(tf) == ConsensusCount(tf, "down") > ConsensusCount(tf, "up")

LONG_NAMES == {"Daily", "Weekly"}
SHORT_NAMES == {"1H", "4H"}

WARN_PULLBACK == <<"warning", "large timeframe bullish but small timeframe pulling back">>
WARN_REBOUND == <<"warning", "large timeframe bearish but small timeframe rebounding">>

Conclusion(consensus_up, consensus_down, total) ==
    IF consensus_up = total THEN <<"strong bullish">>
    ELSE IF consensus_down = total THEN <<"strong bearish">>
    ELSE IF consensus_up > consensus_down THEN <<"overall bullish", consensus_up, total>>
    ELSE IF consensus_down > consensus_up THEN <<"overall bearish", consensus_down, total>>
    ELSE <<"divergent">>

\* mutation: the pull-back warning looks at the long time-frames only
ConflictWarnings_longOnly(valid_tfs) ==
    LET idx == DOMAIN valid_tfs
        long_bullish == \E i \in idx : valid_tfs[i].name \in LONG_NAMES /\ LeansUp(valid_tfs[i])
        long_bearish == \E i \in idx : valid_tfs[i].name \in LONG_NAMES /\ LeansDown(valid_tfs[i])
        short_bullish == \E i \in idx : valid_tfs[i].name \in SHORT_NAMES /\ LeansUp(valid_tfs[i])
    IN  IF long_bullish /\ ~long_bearish THEN <<WARN_PULLBACK>>
        ELSE IF long_bearish /\ short_bullish THEN <<WARN_REBOUND>>
        ELSE <<>>

\* mutation: the pull-back warning is given only when no long time-frame is bearish
ConflictWarnings_onlyPure(valid_tfs) ==
    LET idx == DOMAIN valid_tfs
        long_bullish == \E i \in idx : valid_tfs[i].name \in LONG_NAMES /\ LeansUp(valid_tfs[i])
        short_bearish == \E i \in idx : valid_tfs[i].name \in SHORT_NAMES /\ LeansDown(valid_tfs[i])
        long_bearish == \E i \in idx : valid_tfs[i].name \in LONG_NAMES /\ LeansDown(valid_tfs[i])
        short_bullish == \E i \in idx : valid_tfs[i].name \in SHORT_NAMES /\ LeansUp(valid_tfs[i])
    IN  IF long_bullish /\ short_bearish /\ ~long_bearish THEN <<WARN_PULLBACK>>
        ELSE IF long_bearish /\ short_bullish THEN <<WARN_REBOUND>>
        ELSE <<>>

\* the "if ... elif ..." that ends _generate_summary: at most one warning
ConflictWarnings(valid_tfs) ==
    LET idx == DOMAIN valid_tfs
        long_bullish == \E i \in idx : valid_tfs[i].name \in LONG_NAMES /\ LeansUp(valid_tfs[i])
        short_bearish == \E i \in idx : valid_tfs[i].name \in SHORT_NAMES /\ LeansDown(valid_tfs[i])
        long_bearish == \E i \in idx : valid_tfs[i].name \in LONG_NAMES /\ LeansDown(valid_tfs[i])
        short_bullish == \E i \in idx : valid_tfs[i].name \in SHORT_NAMES /\ LeansUp(valid_tfs[i])
    IN  IF long_bullish /\ short_bearish THEN <<WARN_PULLBACK>>
        ELSE IF long_bearish /\ short_bullish THEN <<WARN_REBOUND>>
        ELSE <<>>

\* f"{tf['name']}: {label}"
DetailLine(tf) == <<"line", tf.name, ConsensusLabelOf(tf)>>

\* mutation: the errored entries are left out of the counts but not of the total
GenerateSummary_totalOfAll(tfs) ==
    LET valid_tfs == SelectSeq(tfs, IsValid)
        consensus_up == Cardinality({i \in DOMAIN valid_tfs : LeansUp(valid_tfs[i])})
        consensus_down == Cardinality({i \in DOMAIN valid_tfs :
                                          ~LeansUp(valid_tfs[i]) /\ LeansDown(valid_tfs[i])})
        total == Len(tfs)
    IN  IF valid_tfs = <<>>
        THEN [conclusion |-> <<"insufficient data">>, details |-> <<>>]
        ELSE [conclusion |-> Conclusion(consensus_up, consensus_down, total),
              details |-> [i \in 1..Len(valid_tfs) |-> DetailLine(valid_tfs[i])]
                              \o ConflictWarnings(valid_tfs)]

GenerateSummary(tfs) ==
    LET valid_tfs == SelectSeq(tfs, IsValid)
        consensus_up == Cardinality({i \in DOMAIN valid_tfs : LeansUp(valid_tfs[i])})
        consensus_down == Cardinality({i \in DOMAIN valid_tfs :
                                          ~LeansUp(valid_tfs[i]) /\ LeansDown(valid_tfs[i])})
        total == Len(valid_tfs)
    IN  IF valid_tfs = <<>>
        THEN [conclusion |-> <<"insufficient data">>, details |-> <<>>]
        ELSE [conclusion |-> Conclusion(consensus_up, consensus_down, total),
              details |-> [i \in 1..total |-> DetailLine(valid_tfs[i])]
                              \o ConflictWarnings(valid_tfs)]

----------------------------------------------------------------------------
(* Specification of one _generate_summary call: one entry per ladder        *)
(* configuration is drawn, each what analyze_timeframe can return there.    *)

\* u Up results, then d Down results, then o Sideways results
ResultsOfCounts(u, d, o) ==
    [i \in 1..(u + d + o) |->
        IF i <= u THEN SampleResult(CHANNEL_UP)
        ELSE IF i <= u + d THEN SampleResult(CHANNEL_DOWN)
        ELSE SampleResult(CHANNEL_SIDEWAYS)]

CountedLists ==
    {ResultsOfCounts(c[1], c[2], c[3]) :
        c \in {c \in (0..MaxStrategies) \X (0..MaxStrategies) \X (0..MaxStrategies) :
                  c[1] + c[2] + c[3] <= MaxStrategies}}

EntriesOf(config) ==
    {FetchError(config)}
        \cup (IF "resample" \in DOMAIN config THEN {ResampleError(config)} ELSE {})
        \cup {TimeframeResult(config, 300, rs) : rs \in CountedLists}

\* the entries each ladder configuration can contribute
LadderEntries == [i \in DOMAIN TIMEFRAME_CONFIGS |-> EntriesOf(TIMEFRAME_CONFIGS[i])]

InitSummary ==
    /\ \E e1 \in LadderEntries[1], e2 \in LadderEntries[2],
          e3 \in LadderEntries[3], e4 \in LadderEntries[4] :
           arg = [timeframes |-> <<e1, e2, e3, e4>>]
    /\ ret = None
    /\ pc = "summary"
    /\ Idle

GenerateSummaryCall ==
    /\ pc = "summary"
    /\ Returns(GenerateSummary(arg.timeframes))

NextSummary == GenerateSummaryCall

SpecSummary == InitSummary /\ [][NextSummary]_vars

----------------------------------------------------------------------------
(* Specification of one _generate_summary call on the entries of a          *)
(* sub-ladder (multi_timeframe_report takes the configurations to run as    *)
(* its timeframes argument): every configuration is left out, errored, or   *)
(* analysed by at most one Up, one Down and one Sideways strategy.          *)

\* the entries of seq whose positions are in keep, in order
Pick(seq, keep) ==
    LET F[i \in 0..Len(seq)] ==
            IF i = 0 THEN <<>>
            ELSE IF i \in keep THEN Append(F[i - 1], seq[i]) ELSE F[i - 1]
    IN  F[Len(seq)]

MixedEntriesOf(config) ==
    {FetchError(config)}
        \cup (IF "resample" \in DOMAIN config THEN {ResampleError(config)} ELSE {})
        \cup {TimeframeResult(config, 300, ResultsOfCounts(u, d, o)) :
                  u \in 0..1, d \in 0..1, o \in 0..1}

MixedEntries == [i \in DOMAIN TIMEFRAME_CONFIGS |-> MixedEntriesOf(TIMEFRAME_CONFIGS[i])]

InitMixedSummary ==
    /\ \E keep \in SUBSET DOMAIN TIMEFRAME_CONFIGS :
       \E e1 \in MixedEntries[1], e2 \in MixedEntries[2],
          e3 \in MixedEntries[3], e4 \in MixedEntries[4] :
           arg = [timeframes |-> Pick(<<e1, e2, e3, e4>>, keep)]
    /\ ret = None
    /\ pc = "summary"
    /\ Idle

SpecMixedSummary == InitMixedSummary /\ [][NextSummary]_vars

----------------------------------------------------------------------------
(* ChannelAnalyzer.multi_timeframe_report, channel_analyzer.py:142-160,     *)
(* one step per ladder configuration: analyze_timeframe fetches, resamples  *)
(* where the configuration asks for it, runs every strategy and reconciles; *)
(* after the last configuration the summary is derived and the report       *)
(* returned.                                                                *)

\* the statistics of a fetched bar series, for the four strategies at once;
\* the ADX of a series is one number, shared by all of them
MarketStats(market) ==
    LET up == market = "bull"
        down == market = "bear"
        slope == IF up THEN 5 ELSE IF down THEN -5 ELSE 0
        adx == IF up \/ down THEN 250 ELSE 0
        price == IF up THEN 10030 ELSE IF down THEN 9970 ELSE 10000
    IN  [regression |->
             [price |-> price, slope |-> slope,
              r_squared |-> IF slope = 0 THEN 0 ELSE 50,
              std_dev |-> 40, center |-> 10000, adx |-> adx,
              sma_s |-> IF up THEN 10000 ELSE 9900, sma_l |-> 9950],
         bollinger |->
             [price |-> price, middle |-> 10000, dev |-> 60, ma_slope |-> slope,
              bw_median |-> 12000, adx |-> adx],
         donchian |->
             [price |-> price, upper |-> 10100, lower |-> 9900, close_mean |-> 10000,
              upper_slope |-> slope, lower_slope |-> slope, adx |-> adx],
         trendline |->
             [price |-> price, high_pivots |-> 3, low_pivots |-> 3,
              max_high |-> 10200, min_low |-> 9800, mean_close |-> 10000,
              h_slope |-> slope, l_slope |-> slope,
              upper_at_end |-> 10100, lower_at_end |-> 10000, adx |-> adx]]

Markets == {"bull", "bear", "flat"}

\* bar counts a fetch can return
FetchedLens == {10, 30, 100, 300}

\* a coarser series has at most as many bars, and at least a quarter (1h into 4h)
ResampledLens(n) == {m \in FetchedLens : m <= n /\ 4 * m >= n}

\* mutation: only a failed resampling is rejected, a short series is analysed
ResampleRejected_onlyNone(m) == m = 0

\* df is None or len(df) < 20, m being the resampled bar count and 0 for None
ResampleRejected(m) == m < 20

\* strat.analyze(df, lookback=config["lookback"], sma_short=..., sma_long=...)
Analyze(self, df, config) ==
    CASE self.name = "regression" ->
             RegressionAnalyze(self, df.len, config.lookback, config.sma_short,
                               config.sma_long, df.stats.regression)
      [] self.name = "bollinger" ->
             BollingerAnalyze(self, df.len, config.lookback, config.sma_short,
                              config.sma_long, df.stats.bollinger)
      [] self.name = "donchian" ->
             DonchianAnalyze(self, df.len, config.lookback, config.sma_short,
                             config.sma_long, df.stats.donchian)
      [] self.name = "trendline" ->
             TrendlineAnalyze(self, df.len, config.lookback, config.sma_short,
                              config.sma_long, df.stats.trendline)

\* mutation: the results are collected last strategy first
AnalyzeAll_reversed(strats, df, config) ==
    [i \in DOMAIN strats |-> Analyze(strats[Len(strats) + 1 - i], df, config)]

\* results = [strat.analyze(df, ...) for strat in self.strategies]
AnalyzeAll(strats, df, config) == [i \in DOMAIN strats |-> Analyze(strats[i], df, config)]

\* the strategy lists ChannelAnalyzer.__init__ leaves in self.strategies:
\* all four, one requested strategy, two requested out of the default order,
\* none (every requested name unknown)
StrategyLists ==
    {<<LinearRegressionStrategy, BollingerBandStrategy,
       DonchianChannelStrategy, TrendlineStrategy>>,
     <<BollingerBandStrategy>>,
     <<TrendlineStrategy, LinearRegressionStrategy>>,
     <<>>}

\* configs = timeframes or TIMEFRAME_CONFIGS
ReportConfigs == TIMEFRAME_CONFIGS

\* mutation: the ladder is walked from its last configuration
CurrentConfig_fromEnd == ReportConfigs[Len(ReportConfigs) - Len(timeframes)]

CurrentConfig == ReportConfigs[Len(timeframes) + 1]

InitReport ==
    /\ strategies \in StrategyLists
    /\ arg = [timeframes |-> None]
    /\ ret = None
    /\ pc = "loop"
    /\ timeframes = <<>>
    /\ summary = None
    /\ callLog = <<>>
    /\ strat = None
    /\ cerebro = None

\* report["timeframes"].append(result)
Appended(tfs, result) == Append(tfs, result)

\* the report as returned; generated_at, the wall clock, is left out
Report(tfs, sum) ==
    [symbol |-> "GC=F",
     strategies_used |-> [i \in DOMAIN strategies |-> strategies[i].display_name],
     timeframes |-> tfs,
     summary |-> sum]

\* the end of one loop iteration, and of the report after the last one
Collect(result, calls) ==
    LET tfs == Appended(timeframes, result)
        last == Len(timeframes) + 1 = Len(ReportConfigs)
    IN  /\ timeframes' = tfs
        /\ IF last
           THEN /\ summary' = GenerateSummary(tfs)
                /\ callLog' = callLog \o calls \o << <<"summary">> >>
                /\ pc' = "done"
                /\ ret' = Report(tfs, summary')
           ELSE /\ callLog' = callLog \o calls
                /\ UNCHANGED <<summary, pc, ret>>
        /\ UNCHANGED <<strategies, arg, strat, cerebro>>

AnalyzeCalls(config) ==
    [i \in DOMAIN strategies |-> <<"analyze", config.name, strategies[i].name>>]

\* fetch_ohlcv returned None: no data, an empty frame or an exception inside it
TimeframeFetchFailed ==
    /\ pc = "loop"
    /\ Collect(FetchError(CurrentConfig), << <<"fetch", CurrentConfig.name, "failed">> >>)

\* the fetch succeeded, _resample returned None or fewer than 20 bars; the
\* resample event carries the number of bars it gave, 0 for None
TimeframeResampleFailed ==
    /\ pc = "loop"
    /\ "resample" \in DOMAIN CurrentConfig
    /\ \E n \in FetchedLens :
       \E m \in {0} \cup ResampledLens(n) :
           /\ ResampleRejected(m)
           /\ Collect(ResampleError(CurrentConfig),
                      << <<"fetch", CurrentConfig.name, "ok">>,
                         <<"resample", CurrentConfig.name, m>> >>)

\* the fetch (and the resampling) succeeded: every strategy analyses the bars
TimeframeAnalyzed ==
    /\ pc = "loop"
    /\ \E n \in FetchedLens, market \in Markets :
       \E m \in IF "resample" \in DOMAIN CurrentConfig THEN ResampledLens(n) ELSE {n} :
           /\ ("resample" \in DOMAIN CurrentConfig) => ~ResampleRejected(m)
           /\ LET df == [len |-> m, stats |-> MarketStats(market)]
                  results == AnalyzeAll(strategies, df, CurrentConfig)
              IN  Collect(TimeframeResult(CurrentConfig, m, results),
                          << <<"fetch", CurrentConfig.name, "ok">> >>
                          \o (IF "resample" \in DOMAIN CurrentConfig
                              THEN << <<"resample", CurrentConfig.name, m>> >> ELSE <<>>)
                          \o AnalyzeCalls(CurrentConfig))

NextReport ==
    \/ TimeframeFetchFailed
    \/ TimeframeResampleFailed
    \/ TimeframeAnalyzed

SpecReport == InitReport /\ [][NextReport]_vars

----------------------------------------------------------------------------
(* ChannelAnalyzer._resample, channel_analyzer.py:272-297.  A frame is its  *)
(* bars in time order, the time of a bar being its hour counted from a      *)
(* midnight, and whether it has a volume column (fetch_ohlcv keeps the      *)
(* OHLCV columns the source delivered).  The bars hold no NaN: fetch_ohlcv  *)
(* drops such rows.                                                         *)

\* the hours of a rule
RuleHours(rule) == CASE rule = "4h" -> 4 [] rule = "2h" -> 2

\* the label of the bin a time falls in: bins start at midnight
BinOf(time, rule) == RuleHours(rule) * (time \div RuleHours(rule))

SetMax(S) == CHOOSE x \in S : \A y \in S : x >= y
SetMin(S) == CHOOSE x \in S : \A y \in S : x <= y

\* the elements of a set of numbers in increasing order
Sorted(S) ==
    LET F[T \in SUBSET S] ==
            IF T = {} THEN <<>> ELSE <<SetMin(T)>> \o F[T \ {SetMin(T)}]
    IN  F[S]

\* mutation: the high of a bin is that of its last bar
Aggregate_lastHigh(bars, rows, label) ==
    [time |-> label,
     open |-> bars[SetMin(rows)].open,
     high |-> bars[SetMax(rows)].high,
     low |-> SetMin({bars[i].low : i \in rows}),
     close |-> bars[SetMax(rows)].close,
     volume |-> LET F[i \in 0..Len(bars)] ==
                        IF i = 0 THEN 0
                        ELSE F[i - 1] + (IF i \in rows THEN bars[i].volume ELSE 0)
                IN  F[Len(bars)]]

\* .agg({"open": "first", "high": "max", "low": "min", "close": "last",
\* "volume": "sum"}) of the bars of one bin, rows being their positions
Aggregate(bars, rows, label) ==
    [time |-> label,
     open |-> bars[SetMin(rows)].open,
     high |-> SetMax({bars[i].high : i \in rows}),
     low |-> SetMin({bars[i].low : i \in rows}),
     close |-> bars[SetMax(rows)].close,
     volume |-> LET F[i \in 0..Len(bars)] ==
                        IF i = 0 THEN 0
                        ELSE F[i - 1] + (IF i \in rows THEN bars[i].volume ELSE 0)
                IN  F[Len(bars)]]

\* resample(rule) makes every bin from the first bar's to the last bar's; a
\* bin without a bar aggregates to NaN prices and dropna() removes it, a bin
\* with bars has no NaN.  Aggregating a frame without a volume column raises,
\* and the except clause returns None.
Resample(df, rule) ==
    LET bars == df.bars
        w == RuleHours(rule)
        labels == {BinOf(bars[i].time, rule) : i \in DOMAIN bars}
        bins == {SetMin(labels) + w * k : k \in 0..((SetMax(labels) - SetMin(labels)) \div w)}
        RowsOf(b) == {i \in DOMAIN bars : BinOf(bars[i].time, rule) = b}
        kept == Sorted({b \in bins : RowsOf(b) # {}})
    IN  IF ~df.has_volume THEN None
        ELSE [bars |-> [k \in DOMAIN kept |-> Aggregate(bars, RowsOf(kept[k]), kept[k])],
              has_volume |-> TRUE]

\* the caller's frame after _resample: the work is done on temp = df.copy()
FrameAfterResample(df) == df

----------------------------------------------------------------------------
(* Specification of one _resample call: a frame of hourly bars is drawn,    *)
(* some hours of the range having no bar.                                   *)

\* the hours 0 .. MaxHours - 1 may each hold a bar
MaxHours == 6

\* open, high, low, close in thousandths (low <= open, close <= high), volume
BarShapes ==
    << [open |-> 10000, high |-> 10010, low |-> 9990, close |-> 10005, volume |-> 0],
       [open |-> 10020, high |-> 10050, low |-> 10010, close |-> 10030, volume |-> 3],
       [open |-> 9980, high |-> 9990, low |-> 9950, close |-> 9960, volume |-> 5] >>

\* the bars of a choice of shape per hour, 0 for an hour without a bar
BarsOf(choice) ==
    LET F[h \in 0..MaxHours] ==
            IF h = 0 THEN <<>>
            ELSE IF choice[h - 1] = 0 THEN F[h - 1]
            ELSE Append(F[h - 1],
                        [time |-> h - 1,
                         open |-> BarShapes[choice[h - 1]].open,
                         high |-> BarShapes[choice[h - 1]].high,
                         low |-> BarShapes[choice[h - 1]].low,
                         close |-> BarShapes[choice[h - 1]].close,
                         volume |-> BarShapes[choice[h - 1]].volume])
    IN  F[MaxHours]

InitResample ==
    /\ \E choice \in [0..(MaxHours - 1) -> 0..Len(BarShapes)] :
       \E rule \in {"2h", "4h"}, has_volume \in BOOLEAN :
           /\ \E h \in DOMAIN choice : choice[h] # 0
           /\ arg = [df |-> [bars |-> BarsOf(choice), has_volume |-> has_volume],
                     rule |-> rule]
    /\ ret = None
    /\ pc = "resample"
    /\ Idle

\* self._resample(df, rule); the call is logged with the frame it was handed
ResampleCall ==
    /\ pc = "resample"
    /\ ret' = Returned(Resample(arg.df, arg.rule))
    /\ arg' = [arg EXCEPT !.df = FrameAfterResample(arg.df)]
    /\ callLog' = << <<"resample", arg.df, arg.rule>> >>
    /\ pc' = "returned"
    /\ UNCHANGED <<strategies, timeframes, summary, strat, cerebro>>

NextResample == ResampleCall

SpecResample == InitResample /\ [][NextResample]_vars

----------------------------------------------------------------------------
(* Specification of a run of analyze calls on one bar series: the caller    *)
(* holds the four default strategies and one fetched frame and calls any    *)
(* strategy with any of the chosen configurations, several times over.      *)
(* Every call is logged with the frame it was handed and what it returned.  *)

\* most analyze calls in a run
MaxCalls == 3

\* mutation: the window is cut out of the caller's frame itself
BarsAfterAnalyze_tailInPlace(df, lookback) ==
    [df EXCEPT !.len = Min2(df.len, lookback)]

\* the caller's frame after analyze: the window is taken from a copy
\* (df.tail(lookback).copy()), the indicators read the columns, nothing is
\* written back
BarsAfterAnalyze(df, lookback) == df

\* the configurations with the longest and the shortest lookback
RepeatConfigs == {TIMEFRAME_CONFIGS[1], TIMEFRAME_CONFIGS[4]}

InitRepeat ==
    /\ strategies = GetStrategies(None, <<>>).value
    /\ \E n \in FetchedLens, market \in Markets :
           arg = [df |-> [len |-> n, stats |-> MarketStats(market)]]
    /\ ret = None
    /\ pc = "calls"
    /\ timeframes = <<>>
    /\ summary = None
    /\ callLog = <<>>
    /\ strat = None
    /\ cerebro = None

\* strategies[i].analyze(df, lookback=..., sma_short=..., sma_long=...): no
\* attribute of the instance is assigned
AnalyzeCall ==
    /\ pc = "calls"
    /\ Len(callLog) < MaxCalls
    /\ \E i \in DOMAIN strategies, config \in RepeatConfigs :
           /\ ret' = Analyze(strategies[i], arg.df, config)
           /\ callLog' = Append(callLog, [strategy |-> i, config |-> config.name,
                                          df |-> arg.df, result |-> ret'])
           /\ arg' = [arg EXCEPT !.df = BarsAfterAnalyze(arg.df, config.lookback)]
    /\ UNCHANGED <<strategies, pc, timeframes, summary, strat, cerebro>>

NextRepeat == AnalyzeCall

SpecRepeat == InitRepeat /\ [][NextRepeat]_vars

----------------------------------------------------------------------------
(* TrendlineStrategy on the bars themselves: _find_pivots and the two       *)
(* trendline fits are computed from the highs and lows of the window.       *)
(* A bar is [high, low, close]; positions are counted from 1, the index     *)
(* numpy sees is one less.                                                  *)

SeqMax(values, a, b) == SetMax({values[k] : k \in a..b})
SeqMin(values, a, b) == SetMin({values[k] : k \in a..b})

\* mutation: a pivot has to exceed its neighbours strictly
FindPivots_strict(values, window, mode) ==
    Sorted({i \in (window + 1)..(Len(values) - window) :
               IF mode = "high"
               THEN /\ values[i] > SeqMax(values, i - window, i - 1)
                    /\ values[i] > SeqMax(values, i + 1, i + window)
               ELSE /\ values[i] < SeqMin(values, i - window, i - 1)
                    /\ values[i] < SeqMin(values, i + 1, i + window)})

\* mutation: one side only is examined, the left for highs, the right for lows
FindPivots_oneSide(values, window, mode) ==
    Sorted({i \in (window + 1)..(Len(values) - window) :
               IF mode = "high"
               THEN values[i] >= SeqMax(values, i - window, i - 1)
               ELSE values[i] <= SeqMin(values, i + 1, i + window)})

\* _find_pivots: for i in range(window, len(values) - window), the positions
\* whose value is >= (<=) every value of the window bars on each side
FindPivots(values, window, mode) ==
    Sorted({i \in (window + 1)..(Len(values) - window) :
               IF mode = "high"
               THEN /\ values[i] >= SeqMax(values, i - window, i - 1)
                    /\ values[i] >= SeqMax(values, i + 1, i + window)
               ELSE /\ values[i] <= SeqMin(values, i - window, i - 1)
                    /\ values[i] <= SeqMin(values, i + 1, i + window)})

SumOver(S, f(_)) ==
    LET F[T \in SUBSET S] ==
            IF T = {} THEN 0
            ELSE LET x == CHOOSE y \in T : TRUE IN f(x) + F[T \ {x}]
    IN  F[S]

\* round(a / b) for b > 0 and a of either sign
RoundRatio(a, b) == IF a >= 0 THEN RoundHalfEven(a, b) ELSE -RoundHalfEven(-a, b)

\* np.polyfit(idx, vals, 1) by the normal equations, idx the numpy indices of
\* the pivots: the slope is num / den, and np.polyval at the last index `last`
\* is (Sy * den - num * Sx + num * last * n) / (n * den)
Polyfit(values, pivots, last) ==
    LET P == 1..Len(pivots)
        X(k) == pivots[k] - 1
        Y(k) == values[pivots[k]]
        XY(k) == X(k) * Y(k)
        XX(k) == X(k) * X(k)
        n == Len(pivots)
        Sx == SumOver(P, X)
        Sy == SumOver(P, Y)
        num == n * SumOver(P, XY) - Sx * Sy
        den == n * SumOver(P, XX) - Sx * Sx
    IN  [slope |-> RoundRatio(10 * num, den),
         at_end |-> RoundRatio(Sy * den - num * Sx + num * last * n, n * den)]

Column(bars, field) == [k \in DOMAIN bars |-> bars[k][field]]

\* what analyze computes from data = df.tail(lookback), strategies.py:389-432
TrendlineStatsOf(data, pivot_window, rawAdx) ==
    LET high == Column(data, "high")
        low == Column(data, "low")
        close == Column(data, "close")
        n == Len(data)
        highs_idx == FindPivots(high, pivot_window, "high")
        lows_idx == FindPivots(low, pivot_window, "low")
        fitted == Len(highs_idx) >= 3 /\ Len(lows_idx) >= 3
        h == IF fitted THEN Polyfit(high, highs_idx, n - 1) ELSE [slope |-> 0, at_end |-> 0]
        l == IF fitted THEN Polyfit(low, lows_idx, n - 1) ELSE [slope |-> 0, at_end |-> 0]
        Close(k) == close[k]
    IN  [price |-> close[n],
         high_pivots |-> Len(highs_idx),
         low_pivots |-> Len(lows_idx),
         max_high |-> SeqMax(high, 1, n),
         min_low |-> SeqMin(low, 1, n),
         mean_close |-> RoundHalfEven(SumOver(1..n, Close), n),
         h_slope |-> h.slope,
         l_slope |-> l.slope,
         upper_at_end |-> h.at_end,
         lower_at_end |-> l.at_end,
         adx |-> rawAdx]

\* TrendlineStrategy.analyze on a frame of len bars whose last lookback bars
\* are data
TrendlineAnalyzeBars(self, len, lookback, data, rawAdx) ==
    IF len < TrendlineMinBars(lookback)
    THEN DataError(lookback, len)
    ELSE TrendlineAnalyze(self, len, lookback, 20, 60,
                          TrendlineStatsOf(data, self.pivot_window, rawAdx))

----------------------------------------------------------------------------
(* Specification of one TrendlineStrategy.analyze call on drawn bars: the   *)
(* highs and the lows either take one of two levels each, in any order, or  *)
(* climb from bar to bar by a drawn step (a step of 0 makes a plateau); the *)
(* close lies midway; the pivot window is 1 or 2 bars.                      *)

MaxBars == 6

HighLevels == {10100, 10200}
LowLevels == {9800, 9900}

\* TrendlineStrategy(pivot_window=...)
PivotInstances == {[TrendlineStrategy EXCEPT !.pivot_window = w] : w \in 1..2}

BarOf(h, l) == [high |-> h, low |-> l, close |-> (h + l) \div 2]

\* the series that starts at start and rises by steps[k] after bar k
Climb(start, steps, n) ==
    LET F[k \in 1..n] == IF k = 1 THEN start ELSE F[k - 1] + steps[k - 1]
    IN  F

PivotCall(self, len, data, adx) ==
    [self |-> self, len |-> len, lookback |-> Len(data), data |-> data, adx |-> adx]

InitPivots ==
    /\ \E self \in PivotInstances, n \in (MaxBars - 1)..MaxBars :
          \/ \E highs \in [1..n -> HighLevels], lows \in [1..n -> LowLevels] :
             \E extra \in {-1, 0, 20}, adx \in {199, 200} :
                 arg = PivotCall(self, n + extra,
                                 [k \in 1..n |-> BarOf(highs[k], lows[k])], adx)
          \/ \E up \in [1..(n - 1) -> {0, 100, 200}], lp \in [1..(n - 1) -> {0, 100}] :
             \E extra \in {0, 20} :
                 arg = PivotCall(self, n + extra,
                                 [k \in 1..n |-> BarOf(Climb(10100, up, n)[k],
                                                       Climb(9000, lp, n)[k])], 200)
    /\ ret = None
    /\ pc = "analyze"
    /\ Idle

AnalyzeTrendlineBars ==
    /\ pc = "analyze"
    /\ Returns(TrendlineAnalyzeBars(arg.self, arg.len, arg.lookback, arg.data, arg.adx))

NextPivots == AnalyzeTrendlineBars

SpecPivots == InitPivots /\ [][NextPivots]_vars

----------------------------------------------------------------------------
(* The backtest strategies (src/strategies) under backtrader.  Prices and   *)
(* ATR values are whole price units, the ATR multipliers of the params are  *)
(* in tenths (40 is 4.0), the moving-average spread is in hundredths of a   *)
(* percent (-30 is -0.3%), tp1_close_pct is in tenths.  An attribute that   *)
(* holds a number or None is Num(v) or None.                                *)

Num(v) == [num |-> v]

\* the truth value Python gives an optional number: None and 0 are false
Truthy(x) == x # None /\ x.num # 0

\* atr * mult for a multiplier in tenths
Times(atr, mult) == (atr * mult) \div 10

\* bars a run processes after the indicators' warm-up
MaxLen == 6

PriceLevels == {1000, 1040, 1100}
AtrLevels == {10, 20}

\* one bar of the data feed with the ATR indicator's value on it
Bar(open, close, atr) ==
    [open |-> open, close |-> close,
     high |-> Max2(open, close), low |-> Min2(open, close), atr |-> atr]

Bars == {Bar(o, c, a) : o \in PriceLevels, c \in PriceLevels, a \in AtrLevels}

\* what _calc_size and _calc_position_size return: at least 1
Sizes == {1, 2}

\* the indicator values next() reads on a bar: with a position only the
\* crossover and the spread of the averages are read
Readings(held) ==
    IF held
    THEN {[crossover |-> x, spread |-> s, rsi |-> 70, adx |-> 25,
           plus_di |-> 20, minus_di |-> 10, macd_hist |-> 0,
           short_slope |-> -200, sma_short |-> 1040] :
              x \in {-1, 0, 1}, s \in {-1200, -100, 100}}
    ELSE {[crossover |-> x, spread |-> s, rsi |-> r, adx |-> a,
           plus_di |-> 15 + d, minus_di |-> 15 - d, macd_hist |-> m,
           short_slope |-> -200, sma_short |-> 1040] :
              x \in {-1, 0, 1}, s \in {-1200, -100, 100}, r \in {30, 70},
              a \in {10, 25}, d \in {-5, 5}, m \in {-1, 0}}

\* the params of the four classes; reentry_cooldown is passed as a keyword,
\* as the run scripts do, the other values are the defaults
BacktestInstances ==
    {[cls |-> "EnhancedMAStrategy", rsi_upper |-> 50,
      atr_sl_mult |-> 20, atr_tp_mult |-> 30, trail_atr_mult |-> 15],
     [cls |-> "SwingStrategy", rsi_upper |-> 45, adx_threshold |-> 20,
      atr_sl_mult |-> 40, atr_tp_mult |-> 60, trail_atr_mult |-> 30,
      reentry_cooldown |-> 2],
     [cls |-> "OptimizedSwingStrategy", rsi_long_min |-> 40, rsi_short_max |-> 60,
      adx_threshold |-> 18, atr_sl_mult |-> 40, atr_tp1_mult |-> 50,
      tp1_close_pct |-> 5, trail_atr_mult |-> 30, max_ma_spread |-> 800,
      reentry_cooldown |-> 2, enable_short |-> TRUE],
     [cls |-> "OptimizedSwingV2", rsi_long_min |-> 40, rsi_short_max |-> 60,
      adx_threshold |-> 18, atr_sl_mult |-> 50, atr_trail_trigger |-> 60,
      trail_atr_mult |-> 35, breakeven_trigger |-> 30, max_ma_spread |-> 1000,
      reentry_cooldown |-> 2, enable_short |-> TRUE]}

\* what next() leaves behind: the instance and the orders it handed the broker
NoOrder(self) == [self |-> self, submitted |-> <<>>]

\* self.order = self.buy(size=size) / self.sell(size=size)
Submit(self, isbuy, size) ==
    LET order == [isbuy |-> isbuy, size |-> size]
    IN  [self |-> [self EXCEPT !.order = order], submitted |-> <<order>>]

\* self.order = self.close(): an order against the whole position
Close(self, position) == Submit(self, position < 0, Abs(position))

\* the trailing stop taken over without the comparison
TrailedStop_unguarded(stop_price, trail_stop) == trail_stop

\* if trail_stop > self.stop_price: self.stop_price = trail_stop
TrailedStop(stop_price, trail_stop) ==
    IF trail_stop > stop_price THEN trail_stop ELSE stop_price

\* if new_stop < self.stop_price: self.stop_price = new_stop
TrailedStopShort(stop_price, new_stop) ==
    IF new_stop < stop_price THEN new_stop ELSE stop_price

\* a cooldown that ends one bar early
InCooldown_early(self, len) ==
    len - self.last_exit_bar < self.params.reentry_cooldown - 1

\* len(self) - self.last_exit_bar < self.params.reentry_cooldown
InCooldown(self, len) == len - self.last_exit_bar < self.params.reentry_cooldown

(* EnhancedMAStrategy *)

EnhancedMAStrategy_init(params) ==
    [params |-> params, order |-> None, entry_price |-> None,
     stop_price |-> None, trail_activated |-> FALSE,
     highest_since_entry |-> None]

EnhancedMAStrategy_notify_order(self, order, status, price, atr, len) ==
    IF status \in {"Submitted", "Accepted"} THEN self
    ELSE LET after ==
                 IF status = "Completed"
                 THEN IF order.isbuy
                      THEN [self EXCEPT
                               !.entry_price = Num(price),
                               !.stop_price = Num(price - Times(atr, self.params.atr_sl_mult)),
                               !.highest_since_entry = Num(price),
                               !.trail_activated = FALSE]
                      ELSE [self EXCEPT
                               !.entry_price = None,
                               !.stop_price = None,
                               !.highest_since_entry = None,
                               !.trail_activated = FALSE]
                 ELSE self
         IN  [after EXCEPT !.order = None]

\* the position management shared, line for line, by EnhancedMAStrategy.next
\* and SwingStrategy.next: highest price, trail activation, trailing stop
ManagedLong(self, bar) ==
    LET highest == IF self.highest_since_entry # None
                   THEN Num(Max2(self.highest_since_entry.num, bar.close))
                   ELSE None
        activated == \/ self.trail_activated
                     \/ /\ self.entry_price # None
                        /\ highest # None
                        /\ highest.num - self.entry_price.num
                              >= Times(bar.atr, self.params.atr_tp_mult)
        trail_stop == highest.num - Times(bar.atr, self.params.trail_atr_mult)
    IN  [self EXCEPT
            !.highest_since_entry = highest,
            !.trail_activated = activated,
            !.stop_price = IF activated
                           THEN Num(TrailedStop(self.stop_price.num, trail_stop))
                           ELSE self.stop_price]

EnhancedMAStrategy_next(self, position, bar, ind, size, len) ==
    IF self.order # None THEN NoOrder(self)
    ELSE IF position # 0
    THEN LET managed == ManagedLong(self, bar)
         IN  IF managed.stop_price # None /\ bar.close <= managed.stop_price.num
             THEN Close(managed, position)
             ELSE IF ind.crossover < 0
             THEN Close(managed, position)
             ELSE NoOrder(managed)
    ELSE IF ind.crossover > 0 /\ ind.rsi > self.params.rsi_upper
         THEN Submit(self, TRUE, size)
         ELSE NoOrder(self)

(* SwingStrategy *)

SwingStrategy_init(params) ==
    [params |-> params, order |-> None, entry_price |-> None,
     entry_bar |-> None, stop_price |-> None, trail_activated |-> FALSE,
     highest_since_entry |-> None, last_exit_bar |-> -999]

SwingStrategy_notify_order(self, order, status, price, atr, len) ==
    IF status \in {"Submitted", "Accepted"} THEN self
    ELSE LET after ==
                 IF status = "Completed"
                 THEN IF order.isbuy
                      THEN [self EXCEPT
                               !.entry_price = Num(price),
                               !.entry_bar = Num(len),
                               !.stop_price = Num(price - Times(atr, self.params.atr_sl_mult)),
                               !.highest_since_entry = Num(price),
                               !.trail_activated = FALSE]
                      ELSE [self EXCEPT
                               !.last_exit_bar = len,
                               !.entry_price = None,
                               !.entry_bar = None,
                               !.stop_price = None,
                               !.highest_since_entry = None,
                               !.trail_activated = FALSE]
                 ELSE self
         IN  [after EXCEPT !.order = None]

SwingStrategy_next(self, position, bar, ind, size, len) ==
    IF self.order # None THEN NoOrder(self)
    ELSE IF position # 0
    THEN LET managed == ManagedLong(self, bar)
         IN  IF Truthy(managed.stop_price) /\ bar.close <= managed.stop_price.num
             THEN Close(managed, position)
             ELSE IF ind.crossover < 0 /\ ind.spread < -30
             THEN Close(managed, position)
             ELSE NoOrder(managed)
    ELSE IF InCooldown(self, len) THEN NoOrder(self)
    ELSE IF ind.crossover <= 0 THEN NoOrder(self)
    ELSE IF ind.rsi < self.params.rsi_upper THEN NoOrder(self)
    ELSE IF ind.adx < self.params.adx_threshold THEN NoOrder(self)
    ELSE IF ind.plus_di <= ind.minus_di THEN NoOrder(self)
    ELSE Submit(self, TRUE, size)

(* OptimizedSwingStrategy *)

OptimizedSwingStrategy_init(params) ==
    [params |-> params, order |-> None, entry_price |-> None,
     entry_bar |-> None, stop_price |-> None, direction |-> 0,
     trail_activated |-> FALSE, tp1_done |-> FALSE,
     extreme_since_entry |-> None, last_exit_bar |-> -999, initial_size |-> 0]

OptimizedSwingStrategy_notify_order(self, order, status, price, atr, len) ==
    IF status \in {"Submitted", "Accepted"} THEN self
    ELSE LET entry == /\ \/ self.direction = 0
                         \/ self.direction = 1 /\ order.isbuy
                         \/ self.direction = -1 /\ ~order.isbuy
                      /\ self.entry_price = None
             after ==
                 IF status = "Completed" /\ entry
                 THEN [self EXCEPT
                          !.entry_price = Num(price),
                          !.entry_bar = Num(len),
                          !.initial_size = order.size,
                          !.trail_activated = FALSE,
                          !.tp1_done = FALSE,
                          !.extreme_since_entry = Num(price),
                          !.stop_price =
                              IF self.direction = 1
                              THEN Num(price - Times(atr, self.params.atr_sl_mult))
                              ELSE IF self.direction = -1
                              THEN Num(price + Times(atr, self.params.atr_sl_mult))
                              ELSE self.stop_price]
                 ELSE self
         IN  [after EXCEPT !.order = None]

OptimizedSwingStrategy_reset_state(self) ==
    [self EXCEPT
        !.entry_price = None,
        !.entry_bar = None,
        !.stop_price = None,
        !.direction = 0,
        !.trail_activated = FALSE,
        !.tp1_done = FALSE,
        !.extreme_since_entry = None,
        !.initial_size = 0]

OptimizedSwingStrategy_notify_trade(self, isclosed, len) ==
    IF ~isclosed THEN self
    ELSE OptimizedSwingStrategy_reset_state([self EXCEPT !.last_exit_bar = len])

OptimizedSwingStrategy_manage_position(self, position, bar, ind, len) ==
    LET long == self.direction = 1
        price == bar.close
        atr == bar.atr
        seen == IF Truthy(self.extreme_since_entry)
                THEN self.extreme_since_entry.num ELSE price
        extreme == IF long THEN Max2(seen, bar.high) ELSE Min2(seen, bar.low)
        float_pnl == IF long THEN price - self.entry_price.num
                     ELSE self.entry_price.num - price
        updated == [self EXCEPT !.extreme_since_entry = Num(extreme)]
        tp1 == /\ ~self.tp1_done
               /\ atr > 0
               /\ float_pnl >= Times(atr, self.params.atr_tp1_mult)
        wanted == Max2((self.initial_size * self.params.tp1_close_pct) \div 10, 1)
        current_size == Abs(position)
        close_size == IF current_size > 1 THEN Min2(wanted, current_size - 1) ELSE 0
    IN  IF tp1 /\ close_size > 0
        THEN Submit([updated EXCEPT !.tp1_done = TRUE,
                                    !.stop_price = self.entry_price,
                                    !.trail_activated = TRUE],
                    ~long, close_size)
        ELSE
        LET new_stop == IF long
                        THEN extreme - Times(atr, self.params.trail_atr_mult)
                        ELSE extreme + Times(atr, self.params.trail_atr_mult)
            stop == IF self.trail_activated /\ atr > 0
                    THEN IF long
                         THEN Num(TrailedStop(self.stop_price.num, new_stop))
                         ELSE Num(TrailedStopShort(self.stop_price.num, new_stop))
                    ELSE self.stop_price
            managed == [updated EXCEPT !.stop_price = stop]
            triggered == /\ stop # None
                         /\ \/ long /\ price <= stop.num
                            \/ self.direction = -1 /\ price >= stop.num
            hold == IF Truthy(self.entry_bar) THEN len - self.entry_bar.num ELSE 0
        IN  IF triggered THEN Close(managed, position)
            ELSE IF hold > 20
            THEN IF long /\ ind.short_slope < -100
                 THEN IF price < ind.sma_short
                      THEN Close(managed, position) ELSE NoOrder(managed)
                 ELSE IF self.direction = -1 /\ ind.short_slope > 100
                 THEN IF price > ind.sma_short
                      THEN Close(managed, position) ELSE NoOrder(managed)
                 ELSE NoOrder(managed)
            ELSE NoOrder(managed)

OptimizedSwingStrategy_check_entry(self, ind, size, len) ==
    IF InCooldown(self, len) THEN NoOrder(self)
    ELSE IF ind.crossover > 0
    THEN IF Abs(ind.spread) > self.params.max_ma_spread THEN NoOrder(self)
         ELSE IF ind.rsi < self.params.rsi_long_min THEN NoOrder(self)
         ELSE IF ind.adx < self.params.adx_threshold THEN NoOrder(self)
         ELSE IF ind.plus_di <= ind.minus_di THEN NoOrder(self)
         ELSE Submit([self EXCEPT !.direction = 1], TRUE, size)
    ELSE IF ind.crossover < 0 /\ self.params.enable_short
    THEN IF Abs(ind.spread) > self.params.max_ma_spread THEN NoOrder(self)
         ELSE IF ind.rsi > self.params.rsi_short_max THEN NoOrder(self)
         ELSE IF ind.adx < self.params.adx_threshold THEN NoOrder(self)
         ELSE IF ind.minus_di <= ind.plus_di THEN NoOrder(self)
         ELSE IF ind.macd_hist >= 0 THEN NoOrder(self)
         ELSE Submit([self EXCEPT !.direction = -1], FALSE, size)
    ELSE NoOrder(self)

OptimizedSwingStrategy_next(self, position, bar, ind, size, len) ==
    IF self.order # None THEN NoOrder(self)
    ELSE IF position # 0
    THEN OptimizedSwingStrategy_manage_position(self, position, bar, ind, len)
    ELSE OptimizedSwingStrategy_check_entry(self, ind, size, len)

(* OptimizedSwingV2 *)

OptimizedSwingV2_init(params) ==
    [params |-> params, order |-> None, entry_price |-> None,
     entry_bar |-> None, stop_price |-> None, direction |-> 0,
     breakeven_done |-> FALSE, trail_activated |-> FALSE,
     extreme_since_entry |-> None, last_exit_bar |-> -999]

OptimizedSwingV2_reset_state(self) ==
    [self EXCEPT
        !.entry_price = None,
        !.entry_bar = None,
        !.stop_price = None,
        !.direction = 0,
        !.breakeven_done = FALSE,
        !.trail_activated = FALSE,
        !.extreme_since_entry = None]

OptimizedSwingV2_notify_order(self, order, status, price, atr, len) ==
    IF status \in {"Submitted", "Accepted"} THEN self
    ELSE LET after ==
                 IF status = "Completed" /\ self.entry_price = None
                 THEN [self EXCEPT
                          !.entry_price = Num(price),
                          !.entry_bar = Num(len),
                          !.extreme_since_entry = Num(price),
                          !.breakeven_done = FALSE,
                          !.trail_activated = FALSE,
                          !.stop_price =
                              IF self.direction = 1
                              THEN Num(price - Times(atr, self.params.atr_sl_mult))
                              ELSE IF self.direction = -1
                              THEN Num(price + Times(atr, self.params.atr_sl_mult))
                              ELSE self.stop_price]
                 ELSE self
         IN  [after EXCEPT !.order = None]

OptimizedSwingV2_notify_trade(self, isclosed, len) ==
    IF ~isclosed THEN self
    ELSE OptimizedSwingV2_reset_state([self EXCEPT !.last_exit_bar = len])

OptimizedSwingV2_manage_position(self, position, bar, ind, len) ==
    LET long == self.direction = 1
        price == bar.close
        atr == bar.atr
        seen == IF Truthy(self.extreme_since_entry)
                THEN self.extreme_since_entry.num ELSE price
        extreme == IF long THEN Max2(seen, bar.high) ELSE Min2(seen, bar.low)
        float_pnl == IF long THEN price - self.entry_price.num
                     ELSE self.entry_price.num - price
        entry == self.entry_price.num
        breakeven == /\ ~self.breakeven_done
                     /\ atr > 0
                     /\ float_pnl >= Times(atr, self.params.breakeven_trigger)
        stop1 == IF breakeven
                 THEN IF long THEN Max2(self.stop_price.num, entry)
                      ELSE Min2(self.stop_price.num, entry)
                 ELSE self.stop_price.num
        activated == \/ self.trail_activated
                     \/ atr > 0 /\ float_pnl >= Times(atr, self.params.atr_trail_trigger)
        stop2 == IF activated /\ atr > 0
                 THEN IF long
                      THEN Max2(stop1, extreme - Times(atr, self.params.trail_atr_mult))
                      ELSE Min2(stop1, extreme + Times(atr, self.params.trail_atr_mult))
                 ELSE stop1
        managed == [self EXCEPT
                       !.extreme_since_entry = Num(extreme),
                       !.breakeven_done = self.breakeven_done \/ breakeven,
                       !.trail_activated = activated,
                       !.stop_price = Num(stop2)]
        triggered == \/ long /\ price <= stop2
                     \/ self.direction = -1 /\ price >= stop2
    IN  IF triggered THEN Close(managed, position)
        ELSE IF long /\ ind.crossover < 0
        THEN IF ind.spread < -50 THEN Close(managed, position) ELSE NoOrder(managed)
        ELSE IF self.direction = -1 /\ ind.crossover > 0
        THEN IF ind.spread > 50 THEN Close(managed, position) ELSE NoOrder(managed)
        ELSE NoOrder(managed)

OptimizedSwingV2_check_entry(self, ind, size, len) ==
    IF InCooldown(self, len) THEN NoOrder(self)
    ELSE IF ind.crossover > 0
    THEN IF Abs(ind.spread) > self.params.max_ma_spread THEN NoOrder(self)
         ELSE IF ind.rsi < self.params.rsi_long_min THEN NoOrder(self)
         ELSE IF ind.adx < self.params.adx_threshold THEN NoOrder(self)
         ELSE IF ind.plus_di <= ind.minus_di THEN NoOrder(self)
         ELSE Submit([self EXCEPT !.direction = 1], TRUE, size)
    ELSE IF ind.crossover < 0 /\ self.params.enable_short
    THEN IF Abs(ind.spread) > self.params.max_ma_spread THEN NoOrder(self)
         ELSE IF ind.rsi > self.params.rsi_short_max THEN NoOrder(self)
         ELSE IF ind.adx < self.params.adx_threshold THEN NoOrder(self)
         ELSE IF ind.minus_di <= ind.plus_di THEN NoOrder(self)
         ELSE IF ind.macd_hist >= 0 THEN NoOrder(self)
         ELSE Submit([self EXCEPT !.direction = -1], FALSE, size)
    ELSE NoOrder(self)

OptimizedSwingV2_next(self, position, bar, ind, size, len) ==
    IF self.order # None THEN NoOrder(self)
    ELSE IF position # 0
    THEN OptimizedSwingV2_manage_position(self, position, bar, ind, len)
    ELSE OptimizedSwingV2_check_entry(self, ind, size, len)

(* The run: cerebro feeds the bars, the broker executes the orders and the  *)
(* strategy is notified before its next() sees the bar.                     *)

StrategyInit(params) ==
    CASE params.cls = "EnhancedMAStrategy" -> EnhancedMAStrategy_init(params)
      [] params.cls = "SwingStrategy" -> SwingStrategy_init(params)
      [] params.cls = "OptimizedSwingStrategy" -> OptimizedSwingStrategy_init(params)
      [] params.cls = "OptimizedSwingV2" -> OptimizedSwingV2_init(params)

NotifyOrderOf(self, order, status, price, atr, len) ==
    CASE self.params.cls = "EnhancedMAStrategy" ->
             EnhancedMAStrategy_notify_order(self, order, status, price, atr, len)
      [] self.params.cls = "SwingStrategy" ->
             SwingStrategy_notify_order(self, order, status, price, atr, len)
      [] self.params.cls = "OptimizedSwingStrategy" ->
             OptimizedSwingStrategy_notify_order(self, order, status, price, atr, len)
      [] self.params.cls = "OptimizedSwingV2" ->
             OptimizedSwingV2_notify_order(self, order, status, price, atr, len)

\* notify_trade of EnhancedMAStrategy and of SwingStrategy only logs
NotifyTradeOf(self, isclosed, len) ==
    CASE self.params.cls = "OptimizedSwingStrategy" ->
             OptimizedSwingStrategy_notify_trade(self, isclosed, len)
      [] self.params.cls = "OptimizedSwingV2" ->
             OptimizedSwingV2_notify_trade(self, isclosed, len)
      [] OTHER -> self

NextOf(self, position, bar, ind, size, len) ==
    CASE self.params.cls = "EnhancedMAStrategy" ->
             EnhancedMAStrategy_next(self, position, bar, ind, size, len)
      [] self.params.cls = "SwingStrategy" ->
             SwingStrategy_next(self, position, bar, ind, size, len)
      [] self.params.cls = "OptimizedSwingStrategy" ->
             OptimizedSwingStrategy_next(self, position, bar, ind, size, len)
      [] self.params.cls = "OptimizedSwingV2" ->
             OptimizedSwingV2_next(self, position, bar, ind, size, len)

\* the statuses the broker of BacktestEngine reports for an order
OrderStatuses == {"Submitted", "Accepted", "Completed", "Canceled", "Margin", "Rejected"}

\* the broker on a new bar: its oldest order stays alive (Submitted, Accepted),
\* is executed at the open (Completed) or ends unexecuted; an execution moves
\* the position and opens or closes the trade, whose notification follows the
\* order's
Brokered(c, bar, status) ==
    LET len == c.len + 1
        seen == [c EXCEPT !.len = len, !.bar = bar]
    IN  IF c.orders = <<>> THEN seen
        ELSE
        LET order == Head(c.orders)
            note == [order |-> order, status |-> status, price |-> bar.open]
            position == c.position + (IF order.isbuy THEN order.size ELSE -order.size)
            closed == c.position # 0 /\ c.position * position <= 0
            opened == position # 0 /\ c.position * position <= 0
            trades == (IF closed THEN << [isclosed |-> TRUE] >> ELSE <<>>)
                      \o (IF opened THEN << [isclosed |-> FALSE] >> ELSE <<>>)
        IN  IF status \in {"Submitted", "Accepted"}
            THEN [seen EXCEPT !.notifications = <<note>>]
            ELSE IF status = "Completed"
            THEN [seen EXCEPT !.position = position,
                              !.orders = Tail(c.orders),
                              !.notifications = <<note>> \o trades,
                              !.closed_at = IF closed THEN Num(len) ELSE @]
            ELSE [seen EXCEPT !.orders = Tail(c.orders),
                              !.notifications = <<note>>]

InitBacktest ==
    /\ \E params \in BacktestInstances : strat = StrategyInit(params)
    /\ cerebro = [len |-> 0, bar |-> None, position |-> 0, orders |-> <<>>,
                  notifications |-> <<>>, closed_at |-> None]
    /\ strategies = <<>>
    /\ arg = None
    /\ ret = None
    /\ pc = "run"
    /\ timeframes = <<>>
    /\ summary = None
    /\ callLog = <<>>

\* cerebro moves to the next bar and the broker works on its orders
Advance ==
    /\ pc = "run"
    /\ cerebro.bar = None
    /\ cerebro.len < MaxLen
    /\ \E bar \in Bars, status \in OrderStatuses :
           cerebro' = Brokered(cerebro, bar, status)
    /\ UNCHANGED <<strategies, arg, ret, pc, timeframes, summary, callLog, strat>>

\* notify_order(order)
NotifyOrder ==
    /\ pc = "run"
    /\ cerebro.notifications # <<>>
    /\ LET note == Head(cerebro.notifications)
       IN  /\ "status" \in DOMAIN note
           /\ strat' = NotifyOrderOf(strat, note.order, note.status, note.price,
                                     cerebro.bar.atr, cerebro.len)
    /\ cerebro' = [cerebro EXCEPT !.notifications = Tail(@)]
    /\ UNCHANGED <<strategies, arg, ret, pc, timeframes, summary, callLog>>

\* notify_trade(trade)
NotifyTrade ==
    /\ pc = "run"
    /\ cerebro.notifications # <<>>
    /\ LET note == Head(cerebro.notifications)
       IN  /\ "isclosed" \in DOMAIN note
           /\ strat' = NotifyTradeOf(strat, note.isclosed, cerebro.len)
    /\ cerebro' = [cerebro EXCEPT !.notifications = Tail(@)]
    /\ UNCHANGED <<strategies, arg, ret, pc, timeframes, summary, callLog>>

\* next(), once the bar's notifications are delivered; the orders it submits
\* reach the broker
StrategyNext ==
    /\ pc = "run"
    /\ cerebro.bar # None
    /\ cerebro.notifications = <<>>
    /\ \E ind \in Readings(cerebro.position # 0), size \in Sizes :
           LET done == NextOf(strat, cerebro.position, cerebro.bar, ind, size,
                              cerebro.len)
           IN  /\ strat' = done.self
               /\ cerebro' = [cerebro EXCEPT !.bar = None,
                                             !.orders = @ \o done.submitted]
    /\ UNCHANGED <<strategies, arg, ret, pc, timeframes, summary, callLog>>

NextBacktest == Advance \/ NotifyOrder \/ NotifyTrade \/ StrategyNext

SpecBacktest == InitBacktest /\ [][NextBacktest]_vars

----------------------------------------------------------------------------
(* Properties of one analyze call (SpecStrategy) *)

\* the minimum bar count the strategies document, per strategy
StatedMinimum(a) ==
    CASE a.self.name = "regression" ->
             IF a.lookback >= a.sma_long + 10 THEN a.lookback ELSE a.sma_long + 10
      [] a.self.name = "bollinger" -> a.self.bb_period + 10
      [] a.self.name = "donchian" -> a.self.dc_period + 10
      [] a.self.name = "trendline" -> a.lookback

\* C1: analyze called with a bar series shorter than the strategy's minimum
\* returns the error variant, a result whose only field is error (no
\* channel_type, band, center or position_pct), for each of the four strategies.
C1_ShortSeriesGivesErrorVariant ==
    (pc = "returned" /\ arg.len < StatedMinimum(arg)) => DOMAIN ret = {"error"}

\* a regression call that has lookback bars but not sma_long + 10 has returned the error
C1_Witness ==
    /\ pc = "returned"
    /\ arg.self.name = "regression"
    /\ arg.len >= arg.lookback
    /\ arg.len < arg.sma_long + 10
    /\ DOMAIN ret = {"error"}

\* C2: every non-error Channel Result has 0 <= position_pct <= 100, and
\* position_pct is 50.0 whenever its upper_band is <= its lower_band.
C2_PositionPctOfResult ==
    (pc = "returned" /\ ~IsError(ret)) =>
        /\ 0 <= ret.position_pct /\ ret.position_pct <= 1000
        /\ (ret.upper_band <= ret.lower_band) => (ret.position_pct = 500)

----------------------------------------------------------------------------
(* Properties of one _consensus call (SpecConsensus) *)

\* the counts of the argument, taken result by result
NonErrors(rs) == {i \in DOMAIN rs : "error" \notin DOMAIN rs[i]}
Ups(rs) == {i \in NonErrors(rs) : rs[i].channel_type = CHANNEL_UP}
Downs(rs) == {i \in NonErrors(rs) : rs[i].channel_type = CHANNEL_DOWN}

\* C3: over a non-empty list in which every result is non-error and Up,
\* _consensus returns the unanimous-bullish label with up = total and down = 0;
\* symmetrically unanimous bearish with down = total and up = 0 when all are Down.
C3_UnanimousVerdict ==
    LET rs == arg.strategy_results
        n == Len(rs)
    IN  (pc = "returned" /\ n >= 1 /\ NonErrors(rs) = DOMAIN rs) =>
            /\ (Ups(rs) = DOMAIN rs) =>
                   /\ ret.label = <<"unanimous bullish", n, n>>
                   /\ ret.up = n /\ ret.total = n /\ ret.down = 0
            /\ (Downs(rs) = DOMAIN rs) =>
                   /\ ret.label = <<"unanimous bearish", n, n>>
                   /\ ret.down = n /\ ret.total = n /\ ret.up = 0

\* three Up results have been reconciled to unanimous bullish
C3_Witness ==
    /\ pc = "returned"
    /\ Len(arg.strategy_results) = 3
    /\ Ups(arg.strategy_results) = 1..3
    /\ ret.label[1] = "unanimous bullish"

\* C4: with at least one valid result exactly one label is given: unanimous
\* bullish iff up = total; unanimous bearish iff down = total; leaning bullish
\* iff up < total, up > down and 2 up >= total; leaning bearish iff down < total,
\* down > up and 2 down >= total; divergent otherwise, its 'other' count being
\* total - up - down.  So up = down is divergent, and up exactly half of total
\* with up > down is leaning bullish.
C4_LabelByCounts ==
    LET rs == arg.strategy_results
        up == Cardinality(Ups(rs))
        down == Cardinality(Downs(rs))
        total == Cardinality(NonErrors(rs))
        kind == ret.label[1]
    IN  (pc = "returned" /\ total >= 1) =>
            /\ kind \in {"unanimous bullish", "unanimous bearish", "leaning bullish",
                         "leaning bearish", "divergent"}
            /\ (kind = "unanimous bullish") <=> (up = total)
            /\ (kind = "unanimous bearish") <=> (down = total)
            /\ (kind = "leaning bullish") <=> (up < total /\ up > down /\ 2 * up >= total)
            /\ (kind = "leaning bearish") <=> (down < total /\ down > up /\ 2 * down >= total)
            /\ (kind = "divergent") => (ret.label = <<"divergent", up, down, total - up - down>>)
            /\ (up = down) => (kind = "divergent")
            /\ (2 * up = total /\ up > down) => (kind = "leaning bullish")

\* one Up and one Sideways result (up exactly half, up > down) gave leaning bullish
C4_Witness ==
    /\ pc = "returned"
    /\ Cardinality(NonErrors(arg.strategy_results)) = 2
    /\ Cardinality(Ups(arg.strategy_results)) = 1
    /\ Cardinality(Downs(arg.strategy_results)) = 0
    /\ ret.label = <<"leaning bullish", 1, 2>>

\* C5: only results without an error field are counted: total is the number
\* of non-error results, up + down <= total, error results change none of up,
\* down, total; with no non-error result (the empty list included) the verdict
\* is 'no valid data' with up = down = total = 0.
C5_ErrorsAreNotCounted ==
    LET rs == arg.strategy_results
    IN  (pc = "returned") =>
            /\ ret.total = Cardinality(NonErrors(rs))
            /\ ret.up = Cardinality(Ups(rs))
            /\ ret.down = Cardinality(Downs(rs))
            /\ ret.up + ret.down <= ret.total
            /\ (NonErrors(rs) = {}) => (ret = NoValidData)

\* a list mixing error variants with valid results has been reconciled
C5_Witness ==
    /\ pc = "returned"
    /\ Len(arg.strategy_results) = 3
    /\ Cardinality(NonErrors(arg.strategy_results)) = 1
    /\ ret.total = 1

----------------------------------------------------------------------------
(* Properties of one _generate_summary call (SpecSummary) *)

\* the entries of the argument, read field by field
ValidAt(tfs) == {i \in DOMAIN tfs : "error" \notin DOMAIN tfs[i]}
BullishAt(tfs) == {i \in ValidAt(tfs) : tfs[i].consensus.up > tfs[i].consensus.down}
BearishAt(tfs) == {i \in ValidAt(tfs) : tfs[i].consensus.down > tfs[i].consensus.up}
LongAt(tfs) == {i \in DOMAIN tfs : tfs[i].name \in {"Daily", "Weekly"}}
ShortAt(tfs) == {i \in DOMAIN tfs : tfs[i].name \in {"1H", "4H"}}

InDetails(d) == \E k \in DOMAIN ret.details : ret.details[k] = d

\* C6: given the four ladder time-frames, none errored and each with up > down,
\* _generate_summary returns the 'strong bullish' conclusion and a details list
\* made of the four per-time-frame lines, with no conflict warning.
C6_AllBullishIsStrongBullish ==
    LET tfs == arg.timeframes
    IN  (pc = "returned" /\ BullishAt(tfs) = 1..4) =>
            /\ ret.conclusion = <<"strong bullish">>
            /\ ret.details = [i \in 1..4 |-> <<"line", tfs[i].name, tfs[i].consensus.label>>]
            /\ ~InDetails(WARN_PULLBACK) /\ ~InDetails(WARN_REBOUND)

\* four bullish time-frames, the weekly one bullish without a bullish label
C6_Witness ==
    /\ pc = "returned"
    /\ BullishAt(arg.timeframes) = 1..4
    /\ arg.timeframes[4].consensus.label[1] = "divergent"
    /\ ret.conclusion = <<"strong bullish">>
    /\ Len(ret.details) = 4

\* C7: the conclusion is a function of the per-time-frame up/down counts only:
\* with B valid time-frames having up > down, S having down > up and T valid
\* time-frames (T >= 1), it is strong bullish iff B = T, strong bearish iff S = T,
\* overall bullish iff B < T and B > S, overall bearish iff S < T and S > B, and
\* divergent otherwise.
C7_ConclusionByCounts ==
    LET tfs == arg.timeframes
        B == Cardinality(BullishAt(tfs))
        S == Cardinality(BearishAt(tfs))
        T == Cardinality(ValidAt(tfs))
        kind == ret.conclusion[1]
    IN  (pc = "returned" /\ T >= 1) =>
            /\ (kind = "strong bullish") <=> (B = T)
            /\ (kind = "strong bearish") <=> (S = T)
            /\ (kind = "overall bullish") <=> (B < T /\ B > S)
            /\ (kind = "overall bearish") <=> (S < T /\ S > B)
            /\ (kind = "divergent") <=> (B # T /\ S # T /\ B = S)
            /\ (kind = "overall bullish") => (ret.conclusion = <<"overall bullish", B, T>>)
            /\ (kind = "overall bearish") => (ret.conclusion = <<"overall bearish", S, T>>)

\* two of three valid time-frames count as bullish although their labels say
\* divergent, and the conclusion is overall bullish
C7_Witness ==
    LET tfs == arg.timeframes
    IN  /\ pc = "returned"
        /\ Cardinality(ValidAt(tfs)) = 3
        /\ Cardinality(BullishAt(tfs)) = 2
        /\ \A i \in BullishAt(tfs) : tfs[i].consensus.label[1] = "divergent"
        /\ ret.conclusion = <<"overall bullish", 2, 3>>

\* C8: whenever a valid long-horizon time-frame (daily, weekly) has up > down
\* and a valid short-horizon one (1H, 4H) has down > up, the details contain the
\* 'large timeframe bullish but small timeframe pulling back' warning.
C8_PullbackWarning ==
    LET tfs == arg.timeframes
    IN  (/\ pc = "returned"
         /\ BullishAt(tfs) \cap LongAt(tfs) # {}
         /\ BearishAt(tfs) \cap ShortAt(tfs) # {}) => InDetails(WARN_PULLBACK)

\* the warning is given although the other long time-frame is bearish and the
\* other short one bullish
C8_Witness ==
    LET tfs == arg.timeframes
    IN  /\ pc = "returned"
        /\ BullishAt(tfs) = {1, 3}
        /\ BearishAt(tfs) = {2, 4}
        /\ InDetails(WARN_PULLBACK)

\* C9: whenever a valid long-horizon time-frame has down > up and a valid
\* short-horizon one has up > down, the details contain the 'large timeframe
\* bearish but small timeframe rebounding' warning, whatever the other
\* time-frames' verdicts.
C9_ReboundWarning ==
    LET tfs == arg.timeframes
    IN  (/\ pc = "returned"
         /\ BearishAt(tfs) \cap LongAt(tfs) # {}
         /\ BullishAt(tfs) \cap ShortAt(tfs) # {}) => InDetails(WARN_REBOUND)

----------------------------------------------------------------------------
(* Properties of multi_timeframe_report (SpecReport) *)

IsFetch(c) == c[1] = "fetch"

\* the fetches made so far, in order
Fetches == SelectSeq(callLog, IsFetch)

\* C10: a retrieval failure for a time-frame yields an entry carrying name,
\* label and an error and does not abort the report: whatever the pattern of
\* fetch successes and failures, the report holds exactly one entry per ladder
\* configuration, in ladder order, followed by a summary.
C10_FetchFailureIsAnEntry ==
    /\ Len(timeframes) <= Len(TIMEFRAME_CONFIGS)
    /\ Len(Fetches) = Len(timeframes)
    /\ \A i \in DOMAIN timeframes :
           /\ {"name", "label"} \subseteq DOMAIN timeframes[i]
           /\ timeframes[i].name = TIMEFRAME_CONFIGS[i].name
           /\ timeframes[i].label = TIMEFRAME_CONFIGS[i].label
           /\ (Fetches[i][3] = "failed") => (DOMAIN timeframes[i] = {"name", "label", "error"})
    /\ (pc = "loop") => (Len(timeframes) < Len(TIMEFRAME_CONFIGS) /\ ENABLED TimeframeFetchFailed)
    /\ (pc = "done") =>
           /\ Len(timeframes) = Len(TIMEFRAME_CONFIGS)
           /\ ret.timeframes = timeframes
           /\ ret.summary = summary
           /\ DOMAIN summary = {"conclusion", "details"}

\* a report is complete although the first and the third fetch failed
C10_Witness ==
    /\ pc = "done"
    /\ Len(timeframes) = 4
    /\ Fetches[1][3] = "failed" /\ Fetches[3][3] = "failed"
    /\ Fetches[2][3] = "ok" /\ Fetches[4][3] = "ok"
    /\ "error" \in DOMAIN timeframes[1] /\ "error" \in DOMAIN timeframes[3]
    /\ "consensus" \in DOMAIN timeframes[4]
    /\ "summary" \in DOMAIN ret

IsResample(c) == c[1] = "resample"

\* the names of the time-frames a strategy was run on
AnalyzedNames == {callLog[k][2] : k \in {k \in DOMAIN callLog : callLog[k][1] = "analyze"}}

\* the positions in the ladder of the time-frames that were resampled so far
ResampledAt == {i \in DOMAIN timeframes :
                   \E k \in DOMAIN callLog :
                       IsResample(callLog[k]) /\ callLog[k][2] = TIMEFRAME_CONFIGS[i].name}

\* the bar count the resampling of time-frame i gave, 0 when it failed
ResampledBars(i) ==
    LET k == CHOOSE k \in DOMAIN callLog :
                 IsResample(callLog[k]) /\ callLog[k][2] = TIMEFRAME_CONFIGS[i].name
    IN  callLog[k][3]

\* C11: for a time-frame whose configuration has a resample rule, if
\* resampling fails or gives fewer than 20 bars, analyze_timeframe returns a
\* time-frame-level error entry (name, label, error), no strategy runs on that
\* time-frame, and the remaining time-frames are still analysed: the report
\* goes on to one entry per ladder configuration.
C11_ResampleFailureIsAnEntry ==
    /\ \A i \in ResampledAt :
           /\ "resample" \in DOMAIN TIMEFRAME_CONFIGS[i]
           /\ (ResampledBars(i) < 20) =>
                  /\ DOMAIN timeframes[i] = {"name", "label", "error"}
                  /\ timeframes[i].name = TIMEFRAME_CONFIGS[i].name
                  /\ timeframes[i].label = TIMEFRAME_CONFIGS[i].label
                  /\ timeframes[i].error = "insufficient bars after resampling"
                  /\ TIMEFRAME_CONFIGS[i].name \notin AnalyzedNames
           /\ (ResampledBars(i) >= 20) =>
                  /\ "error" \notin DOMAIN timeframes[i]
                  /\ timeframes[i].bars_total = ResampledBars(i)
    /\ (pc = "loop") => (Len(timeframes) < Len(TIMEFRAME_CONFIGS) /\ ENABLED TimeframeAnalyzed)
    /\ (pc = "done") => (Len(timeframes) = Len(TIMEFRAME_CONFIGS))

\* the 4H resampling gave 10 bars; the daily and weekly time-frames were
\* analysed after it by every configured strategy and the report is complete
C11_Witness ==
    /\ pc = "done"
    /\ Len(strategies) = 4
    /\ 2 \in ResampledAt /\ ResampledBars(2) = 10
    /\ "error" \in DOMAIN timeframes[2]
    /\ "4H" \notin AnalyzedNames
    /\ "consensus" \in DOMAIN timeframes[3] /\ "consensus" \in DOMAIN timeframes[4]
    /\ {"Daily", "Weekly"} \subseteq AnalyzedNames

----------------------------------------------------------------------------
(* Properties of _generate_summary on lists with errored entries            *)
(* (SpecMixedSummary)                                                       *)

\* tfs without its errored entries
WithoutErrored(tfs) == Pick(tfs, ValidAt(tfs))

\* tfs with e put in after its first k entries
InsertedAt(tfs, k, e) == SubSeq(tfs, 1, k) \o <<e>> \o SubSeq(tfs, k + 1, Len(tfs))

\* the time-frame-level errors analyze_timeframe can return
ErroredEntries ==
    UNION {{[name |-> c.name, label |-> c.label, error |-> "fetch failed"],
            [name |-> c.name, label |-> c.label,
             error |-> "insufficient bars after resampling"]} : c \in Configs}

\* C12: time-frames carrying a time-frame-level error are skipped from the
\* overall verdict: they count toward neither the bullish count, the bearish
\* count nor the total, contribute no detail line and take no part in conflict
\* detection, so adding or removing errored entries never changes the result
\* of _generate_summary.
C12_ErroredTimeframesAreSkipped ==
    LET tfs == arg.timeframes
        kept == WithoutErrored(tfs)
        B == Cardinality(BullishAt(tfs))
        S == Cardinality(BearishAt(tfs))
        T == Cardinality(ValidAt(tfs))
        lines == [i \in 1..T |-> <<"line", kept[i].name, kept[i].consensus.label>>]
        pullback == /\ BullishAt(tfs) \cap LongAt(tfs) # {}
                    /\ BearishAt(tfs) \cap ShortAt(tfs) # {}
        rebound == /\ BearishAt(tfs) \cap LongAt(tfs) # {}
                   /\ BullishAt(tfs) \cap ShortAt(tfs) # {}
    IN  (pc = "returned") =>
            /\ (T = 0) => (ret = [conclusion |-> <<"insufficient data">>, details |-> <<>>])
            /\ (T >= 1) =>
                   /\ (ret.conclusion[1] = "strong bullish") <=> (B = T)
                   /\ (ret.conclusion[1] = "strong bearish") <=> (S = T)
                   /\ (Len(ret.conclusion) = 3) => (ret.conclusion[3] = T)
                   /\ SubSeq(ret.details, 1, T) = lines
                   /\ Len(ret.details) = T + (IF pullback \/ rebound THEN 1 ELSE 0)
            /\ ret = GenerateSummary(kept)
            /\ \A k \in 0..Len(tfs), e \in ErroredEntries :
                   GenerateSummary(InsertedAt(tfs, k, e)) = ret

\* the first and third of four entries are errored, the other two bullish:
\* the conclusion is strong bullish with two detail lines
C12_Witness ==
    LET tfs == arg.timeframes
    IN  /\ pc = "returned"
        /\ Len(tfs) = 4
        /\ ValidAt(tfs) = {2, 4}
        /\ BullishAt(tfs) = {2, 4}
        /\ ret.conclusion = <<"strong bullish">>
        /\ Len(ret.details) = 2

----------------------------------------------------------------------------
(* Properties of the registry (SpecRegistry) *)

\* what each requested name is once trimmed and lower-cased, written out by hand
IdentifierOf(n) ==
    CASE n = " Regression " -> "regression"
      [] n = "BOLLINGER" -> "bollinger"
      [] n = "donchian\n" -> "donchian"
      [] n = "trendline" -> "trendline"
      [] OTHER -> "unknown"

\* the tunable parameters each strategy owns, with their defaults
OwnDefaults ==
    [regression |-> [adx_threshold |-> 250, r2_threshold |-> 50],
     bollinger |-> [bb_period |-> 20, bb_std |-> 20],
     donchian |-> [dc_period |-> 20],
     trendline |-> [pivot_window |-> 5]]

\* the identifiers a call asks for, unknown names left out, in request order
RequestedIdentifiers(names) ==
    LET l == IF names = None THEN DEFAULT_STRATEGY_NAMES
             ELSE IF Len(names.list) = 0 THEN DEFAULT_STRATEGY_NAMES
             ELSE names.list
        known == Pick(l, {i \in DOMAIN l : IdentifierOf(l[i]) # "unknown"})
    IN  [i \in DOMAIN known |-> IdentifierOf(known[i])]

\* inst is a strategy of identifier id, built with the parameters of kwargs it
\* owns and its defaults otherwise
IsInstanceOf(inst, id, kwargs) ==
    /\ inst.name = id
    /\ DOMAIN inst = {"name", "display_name"} \cup DOMAIN OwnDefaults[id]
    /\ \A f \in DOMAIN OwnDefaults[id] :
           inst[f] = IF f \in DOMAIN kwargs THEN kwargs[f] ELSE OwnDefaults[id][f]

\* C13: get_strategies never fails on an unknown identifier: for a list of
\* names it returns, in request order, one instance for each name that after
\* trimming and lower-casing is a registered identifier and drops every other
\* name; a list of unknown names only gives an empty strategy list, neither an
\* error nor the default set.  The call raises only when a construction
\* parameter is foreign to a known requested strategy, whatever the unknown
\* names are.
C13_UnknownNamesAreDropped ==
    (pc = "returned" /\ arg.names # None /\ arg.names # List(<<>>)) =>
        LET ids == RequestedIdentifiers(arg.names)
            rejected == \E i \in DOMAIN ids :
                            ~(DOMAIN arg.kwargs \subseteq DOMAIN OwnDefaults[ids[i]])
        IN  /\ HasRaised(ret) <=> rejected
            /\ (DOMAIN arg.kwargs = {}) => ~HasRaised(ret)
            /\ ~rejected =>
                   /\ Len(ret.value) = Len(ids)
                   /\ \A i \in DOMAIN ids : IsInstanceOf(ret.value[i], ids[i], arg.kwargs)
            /\ (Len(ids) = 0) => (ret = Returned(<<>>))

\* " Regression ", an unknown name and "donchian\n" gave a regression and a
\* Donchian strategy, in that order, and one warning
C13_Witness ==
    /\ pc = "returned"
    /\ arg.names = List(<<" Regression ", "macd", "donchian\n">>)
    /\ DOMAIN arg.kwargs = {}
    /\ ~HasRaised(ret)
    /\ Len(ret.value) = 2
    /\ ret.value[1].name = "regression" /\ ret.value[2].name = "donchian"
    /\ callLog = << <<"unknown strategy", "macd">> >>

\* C14: get_strategies called with an omitted (None) or empty identifier list
\* returns exactly four instances, one of each registered strategy, in the
\* default order regression, bollinger, donchian, trendline.  (Only a
\* construction parameter can make such a call raise.)
C14_DefaultsToAllFour ==
    (pc = "returned" /\ (arg.names = None \/ arg.names = List(<<>>))) =>
        /\ HasRaised(ret) => (DOMAIN arg.kwargs # {})
        /\ (DOMAIN arg.kwargs = {}) =>
               /\ Len(ret.value) = 4
               /\ IsInstanceOf(ret.value[1], "regression", arg.kwargs)
               /\ IsInstanceOf(ret.value[2], "bollinger", arg.kwargs)
               /\ IsInstanceOf(ret.value[3], "donchian", arg.kwargs)
               /\ IsInstanceOf(ret.value[4], "trendline", arg.kwargs)
               /\ callLog = <<>>

\* an analyzer constructed with an empty name list holds the four strategies
C14_Witness ==
    /\ pc = "returned"
    /\ arg.names = List(<<>>)
    /\ DOMAIN arg.kwargs = {}
    /\ Len(strategies) = 4
    /\ strategies[1].name = "regression" /\ strategies[4].name = "trendline"

\* C15: get_strategies (and ChannelAnalyzer construction) given any of the
\* tunable parameters adx_threshold, r2_threshold, bb_period, bb_std, dc_period,
\* pivot_window together with any subset of the four identifiers, the default
\* all-four set included, returns one instance per known identifier without
\* failing, the parameter taking effect on the strategy that owns it and the
\* other strategies keeping their defaults.
C15_ParametersReachTheirOwner ==
    (pc = "returned" /\ DOMAIN arg.kwargs # {}) =>
        LET ids == RequestedIdentifiers(arg.names)
        IN  /\ ~HasRaised(ret)
            /\ Len(ret.value) = Len(ids)
            /\ \A i \in DOMAIN ids : IsInstanceOf(ret.value[i], ids[i], arg.kwargs)

----------------------------------------------------------------------------
(* Properties of repeated analyze calls (SpecRepeat) *)

----------------------------------------------------------------------------
(* Properties of one _resample call (SpecResample) *)

\* the sum of the volumes of a bar sequence
TotalVolume(bars) ==
    LET F[i \in 0..Len(bars)] == IF i = 0 THEN 0 ELSE F[i - 1] + bars[i].volume
    IN  F[Len(bars)]

\* the bins of width w hours that hold a bar
NonEmptyBins(bars, w) == {b \in 0..MaxHours : b % w = 0 /\ \E i \in DOMAIN bars :
                              b <= bars[i].time /\ bars[i].time < b + w}

\* C17: _resample of a bar series without missing values into a coarser
\* interval preserves the total volume, the global maximum of high and the
\* global minimum of low of the input, yields one bar per non-empty bucket in
\* increasing time order, and leaves the input series unmodified.
C17_ResamplePreserves ==
    (pc = "returned" /\ callLog[1][2].has_volume) =>
        LET given == callLog[1][2].bars
            w == IF arg.rule = "4h" THEN 4 ELSE 2
            out == ret.value.bars
        IN  /\ ret.value # None
            /\ TotalVolume(out) = TotalVolume(given)
            /\ \A i \in DOMAIN given : \E k \in DOMAIN out : out[k].high >= given[i].high
            /\ \A k \in DOMAIN out : \E i \in DOMAIN given : out[k].high = given[i].high
            /\ \A i \in DOMAIN given : \E k \in DOMAIN out : out[k].low <= given[i].low
            /\ \A k \in DOMAIN out : \E i \in DOMAIN given : out[k].low = given[i].low
            /\ {out[k].time : k \in DOMAIN out} = NonEmptyBins(given, w)
            /\ Len(out) = Cardinality(NonEmptyBins(given, w))
            /\ \A j, k \in DOMAIN out : (j < k) => (out[j].time < out[k].time)
            /\ arg.df.bars = given

\* bars at hours 0, 1 and 5 were resampled to 2h: two bars, the empty bin
\* between them dropped, the first one's high the higher of hours 0 and 1
C17_Witness ==
    /\ pc = "returned"
    /\ arg.rule = "2h"
    /\ arg.df.has_volume
    /\ {arg.df.bars[i].time : i \in DOMAIN arg.df.bars} = {0, 1, 5}
    /\ arg.df.bars[1].high > arg.df.bars[2].high
    /\ Len(ret.value.bars) = 2
    /\ ret.value.bars[1].time = 0 /\ ret.value.bars[2].time = 4
    /\ ret.value.bars[1].high = arg.df.bars[1].high

----------------------------------------------------------------------------
(* Properties of the strategy results of a report (SpecReport) *)

\* C18: for every time-frame that is analysed, the strategies list of the
\* result has exactly one entry per configured strategy, the i-th entry being
\* the result (valid, naming the strategy, or the insufficient-bars error with
\* that strategy's minimum) of the i-th configured strategy; the report's
\* strategies_used lists the strategies' display names in that same order.
C18_ResultsFollowStrategyOrder ==
    /\ \A t \in DOMAIN timeframes :
           ("error" \notin DOMAIN timeframes[t]) =>
               LET results == timeframes[t].strategies
                   config == TIMEFRAME_CONFIGS[t]
               IN  /\ Len(results) = Len(strategies)
                   /\ \A i \in DOMAIN strategies :
                          IF "error" \in DOMAIN results[i]
                          THEN results[i].error =
                                   <<"insufficient bars",
                                     StatedMinimum([self |-> strategies[i],
                                                    lookback |-> config.lookback,
                                                    sma_long |-> config.sma_long]),
                                     timeframes[t].bars_total>>
                          ELSE results[i].strategy_name = strategies[i].display_name
    /\ (pc = "done") =>
           /\ Len(ret.strategies_used) = Len(strategies)
           /\ \A i \in DOMAIN strategies : ret.strategies_used[i] = strategies[i].display_name

\* with the trendline strategy configured before the regression one, the
\* weekly entry holds the trendline result first and the regression one second,
\* and the daily entry the trendline's error first
C18_Witness ==
    /\ pc = "done"
    /\ Len(strategies) = 2
    /\ strategies[1].name = "trendline"
    /\ "strategies" \in DOMAIN timeframes[4]
    /\ "strategy_name" \in DOMAIN timeframes[4].strategies[1]
    /\ timeframes[4].strategies[1].strategy_name = "PivotTrendline"
    /\ "strategy_name" \in DOMAIN timeframes[4].strategies[2]
    /\ timeframes[4].strategies[2].strategy_name = "LinearRegression"
    /\ "strategies" \in DOMAIN timeframes[3]
    /\ "error" \in DOMAIN timeframes[3].strategies[1]
    /\ ret.strategies_used = <<"PivotTrendline", "LinearRegression">>

----------------------------------------------------------------------------
(* Properties of the regression classification (SpecRegression) *)

\* C19: regression classification, for any configured thresholds: the result
\* is Up only if R^2 >= r2_threshold, trend-strength >= adx_threshold, the
\* slope is positive and the MA cross label is not bearish alignment; Down only
\* if R^2 >= r2_threshold, trend-strength >= adx_threshold, the slope is
\* negative and the MA cross label is not bullish alignment; Transitioning if
\* R^2 >= r2_threshold and either trend-strength is below threshold or the MA
\* cross label contradicts the directional call; Sideways iff R^2 < r2_threshold.
C19_RegressionClassification ==
    (pc = "returned" /\ ~IsError(ret)) =>
        LET linear == arg.st.r_squared >= arg.self.r2_threshold
            strong == ret.details.adx >= arg.self.adx_threshold
            slope == arg.st.slope
            cross == ret.sma_cross
        IN  /\ (ret.channel_type = CHANNEL_UP) =>
                   (linear /\ strong /\ slope > 0 /\ cross # SMA_BEAR)
            /\ (ret.channel_type = CHANNEL_DOWN) =>
                   (linear /\ strong /\ slope < 0 /\ cross # SMA_BULL)
            /\ (linear /\ (\/ ~strong
                           \/ (slope > 0 /\ cross = SMA_BEAR)
                           \/ (slope < 0 /\ cross = SMA_BULL))) =>
                   (ret.channel_type = CHANNEL_TRANSITION)
            /\ (ret.channel_type = CHANNEL_SIDEWAYS) <=> ~linear

\* the call of the case: the shipped thresholds, enough bars, and closes on
\* one ascending line
OnAscendingLine ==
    /\ pc = "returned"
    /\ arg.series = "linear ascending"
    /\ arg.self = LinearRegressionStrategy
    /\ ~IsError(ret)

\* C20 as stated: on a perfectly linear, strictly ascending closing-price
\* series of sufficient length R^2 is 1 and the channel_type is Up when
\* trend-strength >= 25 and Transitioning otherwise; never Down, never Sideways.
C20_AscendingLineAsStated ==
    OnAscendingLine =>
        /\ ret.details.r_squared = 100
        /\ (ret.details.adx >= 250) => (ret.channel_type = CHANNEL_UP)
        /\ (ret.details.adx < 250) => (ret.channel_type = CHANNEL_TRANSITION)
        /\ ret.channel_type \notin {CHANNEL_DOWN, CHANNEL_SIDEWAYS}

\* C20, amended: on such a series R^2 is 1 and the channel_type is Up when
\* trend-strength >= 25 and the MA cross label is not bearish alignment, as it
\* is whenever the short moving-average period is smaller than the long one
\* (the label is bearish exactly when the short period is at least the long
\* one and no longer than the series), and Transitioning otherwise; never
\* Down, never Sideways.
C20_AscendingLine ==
    OnAscendingLine =>
        LET bearish == arg.sma_short >= arg.sma_long /\ arg.sma_short <= arg.len
            up == ret.details.adx >= 250 /\ ~bearish
        IN  /\ ret.details.r_squared = 100
            /\ (ret.sma_cross = SMA_BEAR) <=> bearish
            /\ up => (ret.channel_type = CHANNEL_UP)
            /\ ~up => (ret.channel_type = CHANNEL_TRANSITION)
            /\ ret.channel_type \notin {CHANNEL_DOWN, CHANNEL_SIDEWAYS}

C20_Witness ==
    /\ OnAscendingLine
    /\ ret.details.adx >= 250
    /\ arg.sma_short < arg.sma_long
    /\ ret.channel_type = CHANNEL_UP

----------------------------------------------------------------------------
(* Properties of the band classifications (SpecBands) *)

BollingerReturned ==
    pc = "returned" /\ arg.self.name = "bollinger" /\ ~IsError(ret)

\* current bandwidth < 0.7 x median bandwidth, from the bars' statistics
IsNarrow == 20000000 * arg.st.dev < 7 * arg.st.bw_median * arg.st.middle

\* the number of middle-band values the slope is fitted to
MiddleBandPoints == Min2(arg.len - arg.self.bb_period + 1, arg.lookback)

\* the cases of C21 that hold as stated
BollingerByPriority ==
    LET narrow == IsNarrow
        strong == ret.details.adx >= 200
        slope == ret.details.ma_slope
        type == ret.channel_type
    IN  /\ slope = (IF MiddleBandPoints < 10 THEN 0 ELSE arg.st.ma_slope)
        /\ (narrow /\ ~strong) => (type = CHANNEL_SIDEWAYS)
        /\ (type = CHANNEL_UP) <=> (slope > 0 /\ strong)
        /\ (type = CHANNEL_DOWN) <=> (slope < 0 /\ strong)
        /\ (type = CHANNEL_TRANSITION) <=> (slope # 0 /\ ~strong /\ ~narrow)
        /\ (type = CHANNEL_SIDEWAYS) <=> ((narrow /\ ~strong) \/ slope = 0)

\* C21 as stated: VolatilityBand classification is decided in priority order
\* (Sideways if narrow and trend-strength < 20; else Up if slope > 0 and
\* trend-strength >= 20; else Down if slope < 0 and trend-strength >= 20; else
\* Transitioning if slope is non-zero and trend-strength < 20; else Sideways);
\* hence Sideways results are exactly those with (narrow and trend-strength
\* < 20) or slope = 0, fewer than 10 middle-band points included, and a narrow
\* band with trend-strength >= 20 is still classified Up or Down.
C21_BollingerAsStated ==
    BollingerReturned =>
        /\ BollingerByPriority
        /\ (IsNarrow /\ ret.details.adx >= 200) =>
               (ret.channel_type \in {CHANNEL_UP, CHANNEL_DOWN})

\* C21, amended: the same, except that a narrow band with trend-strength >= 20
\* is still classified Up or Down when the slope is not zero.
C21_BollingerClassification ==
    BollingerReturned =>
        /\ BollingerByPriority
        /\ (IsNarrow /\ ret.details.adx >= 200 /\ ret.details.ma_slope # 0) =>
               (ret.channel_type \in {CHANNEL_UP, CHANNEL_DOWN})

C21_Witness ==
    /\ BollingerReturned
    /\ IsNarrow
    /\ ret.details.adx >= 200
    /\ ret.details.ma_slope > 0
    /\ ret.channel_type = CHANNEL_UP

DonchianReturned ==
    pc = "returned" /\ arg.self.name = "donchian" /\ ~IsError(ret)

\* the sign of a slope: -1, 0 or 1
Sign(x) == IF x > 0 THEN 1 ELSE IF x < 0 THEN -1 ELSE 0

\* C22: Range classification is decided in priority order: Up if both band
\* slopes > 0 and trend-strength >= 20; else Down if both slopes < 0 and
\* trend-strength >= 20; else Sideways if trend-strength < 15; else
\* Transitioning if the signs of the upper-band and lower-band slopes disagree;
\* else Sideways.  The outcome for a pair of slopes with differing signs does
\* not depend on which of the two bands carries which sign, including when one
\* slope is exactly zero.
C22_DonchianClassification ==
    DonchianReturned =>
        LET u == ret.details.upper_slope
            l == ret.details.lower_slope
            adx == ret.details.adx
            type == ret.channel_type
            up == u > 0 /\ l > 0 /\ adx >= 200
            down == u < 0 /\ l < 0 /\ adx >= 200
            quiet == adx < 150
            disagree == Sign(u) # Sign(l)
        IN  /\ (type = CHANNEL_UP) <=> up
            /\ (type = CHANNEL_DOWN) <=> down
            /\ (type = CHANNEL_TRANSITION) <=> (~up /\ ~down /\ ~quiet /\ disagree)
            /\ (type = CHANNEL_SIDEWAYS) <=> (~up /\ ~down /\ (quiet \/ ~disagree))
            /\ type = DonchianChannelType(l, u, adx)

----------------------------------------------------------------------------
(* Properties of the trendline strategy (SpecPivots, SpecStrategy) *)

NoPivotsMessage == "insufficient pivots, no trendline fitted"

PivotsReturned == pc = "returned" /\ ~IsError(ret)

\* a position is a pivot high (low) of a series: no bar of the window on
\* either side is higher (lower)
IsPivot(values, window, i, mode) ==
    /\ window < i /\ i <= Len(values) - window
    /\ \A k \in (i - window)..(i + window) :
           IF mode = "high" THEN values[k] <= values[i] ELSE values[k] >= values[i]

PivotCount(values, window, mode) ==
    Cardinality({i \in 1..Len(values) : IsPivot(values, window, i, mode)})

\* C23: PivotTrendline with fewer than 3 pivot highs or fewer than 3 pivot
\* lows in the lookback window returns a non-error result classified Sideways,
\* with upper_band = maximum high and lower_band = minimum low over the window,
\* position_pct 50.0 and the insufficient-pivots note; trendlines are fitted
\* only when both counts are at least 3.
C23_TooFewPivots ==
    PivotsReturned =>
        LET w == arg.self.pivot_window
            highs == PivotCount(Column(arg.data, "high"), w, "high")
            lows == PivotCount(Column(arg.data, "low"), w, "low")
            few == highs < 3 \/ lows < 3
        IN  /\ ret.details.high_pivots = highs
            /\ ret.details.low_pivots = lows
            /\ few =>
                   /\ ret.channel_type = CHANNEL_SIDEWAYS
                   /\ \A k \in 1..Len(arg.data) :
                          /\ arg.data[k].high <= ret.upper_band
                          /\ arg.data[k].low >= ret.lower_band
                   /\ \E k \in 1..Len(arg.data) : arg.data[k].high = ret.upper_band
                   /\ \E k \in 1..Len(arg.data) : arg.data[k].low = ret.lower_band
                   /\ ret.position_pct = 500
                   /\ ret.details.note = NoPivotsMessage
            /\ ("high_slope" \in DOMAIN ret.details) <=> ~few
            /\ ("note" \in DOMAIN ret.details) <=> few

C23_Witness ==
    /\ PivotsReturned
    /\ ret.details.high_pivots >= 3
    /\ ret.details.low_pivots = 2
    /\ ret.details.note = NoPivotsMessage

\* every bar's high and low are at least (more than) those of the bar before
Climbs(data, strictly) ==
    \A k \in 2..Len(data) :
        IF strictly
        THEN data[k].high > data[k - 1].high /\ data[k].low > data[k - 1].low
        ELSE data[k].high >= data[k - 1].high /\ data[k].low >= data[k - 1].low

FewPivotsNoted ==
    /\ (ret.details.high_pivots < 3 \/ ret.details.low_pivots < 3)
    /\ ret.channel_type = CHANNEL_SIDEWAYS
    /\ ret.details.note = NoPivotsMessage

\* C24 as stated: PivotTrendline on any monotonically increasing high/low
\* series, one that never falls and ends above its start (for any lookback and pivot window, a bar being a
\* pivot high when its high is >= the maximum of the window bars on each side,
\* and analogously a pivot low) finds fewer than 3 pivots and always yields
\* Sideways with the insufficient-pivots note.
C24_ClimbingSeriesAsStated ==
    (/\ PivotsReturned
     /\ Climbs(arg.data, FALSE)
     /\ arg.data[Len(arg.data)].high > arg.data[1].high
     /\ arg.data[Len(arg.data)].low > arg.data[1].low) => FewPivotsNoted

\* C24, amended: the same for any strictly increasing high/low series.
C24_StrictlyClimbingSeries ==
    (PivotsReturned /\ Climbs(arg.data, TRUE)) => FewPivotsNoted

C24_Witness ==
    /\ PivotsReturned
    /\ Climbs(arg.data, TRUE)
    /\ Len(arg.data) = MaxBars
    /\ arg.self.pivot_window = 1
    /\ ret.details.high_pivots = 0
    /\ ret.details.note = NoPivotsMessage

\* a trendline result for which both trendlines were fitted
TrendlinesFitted ==
    /\ pc = "returned"
    /\ arg.self.name = "trendline"
    /\ ~IsError(ret)
    /\ arg.st.high_pivots >= 3
    /\ arg.st.low_pivots >= 3

\* C25: PivotTrendline with sufficient pivots: Up iff both trendline slopes > 0
\* and trend-strength >= 20; Down iff both < 0 and trend-strength >= 20;
\* Transitioning iff both slopes have the same strict sign and trend-strength
\* < 20; Sideways otherwise.  The pattern label is always consistent with the
\* classification: Up implies 'ascending channel', Down implies 'descending
\* channel', and Sideways occurs exactly with the converging-triangle,
\* diverging-wedge or unclear patterns.
C25_TrendlineClassification ==
    TrendlinesFitted =>
        LET h == arg.st.h_slope
            l == arg.st.l_slope
            strong == ret.details.adx >= 200
            same == Sign(h) = Sign(l) /\ Sign(h) # 0
            type == ret.channel_type
            pattern == ret.details.pattern
        IN  /\ (type = CHANNEL_UP) <=> (h > 0 /\ l > 0 /\ strong)
            /\ (type = CHANNEL_DOWN) <=> (h < 0 /\ l < 0 /\ strong)
            /\ (type = CHANNEL_TRANSITION) <=> (same /\ ~strong)
            /\ (type = CHANNEL_SIDEWAYS) <=> ~same
            /\ (type = CHANNEL_UP) => (pattern = "ascending channel")
            /\ (type = CHANNEL_DOWN) => (pattern = "descending channel")
            /\ (type = CHANNEL_SIDEWAYS) <=>
                   (pattern \in {"converging triangle", "diverging wedge", "unclear"})

C25_Witness ==
    /\ TrendlinesFitted
    /\ ret.details.adx >= 200
    /\ ret.channel_type = CHANNEL_SIDEWAYS
    /\ ret.details.pattern = "converging triangle"

----------------------------------------------------------------------------
(* Properties of the order of calls in a report (SpecReport) *)

IsAnalyze(c) == c[1] = "analyze"
IsSummary(c) == c[1] = "summary"

\* C26: multi_timeframe_report processes the ladder strictly sequentially with
\* no retry: the bar source is invoked exactly once per ladder configuration,
\* in ladder order, whether or not the call fails; a time-frame's strategies
\* run only after its own fetch succeeded and before the next time-frame's
\* fetch starts; and the summary is derived only after all time-frames have
\* been processed.
C26_LadderIsSequential ==
    /\ Len(Fetches) = Len(timeframes)
    /\ Len(Fetches) <= Len(TIMEFRAME_CONFIGS)
    /\ \A i \in DOMAIN Fetches : Fetches[i][2] = TIMEFRAME_CONFIGS[i].name
    /\ \A k \in DOMAIN callLog :
           IsAnalyze(callLog[k]) =>
               \E j \in 1..(k - 1) :
                   /\ IsFetch(callLog[j])
                   /\ callLog[j][2] = callLog[k][2]
                   /\ callLog[j][3] = "ok"
                   /\ \A m \in (j + 1)..k : ~IsFetch(callLog[m])
    /\ \A k \in DOMAIN callLog :
           IsSummary(callLog[k]) =>
               /\ k = Len(callLog)
               /\ Len(Fetches) = Len(TIMEFRAME_CONFIGS)
    /\ (pc = "done") <=> (callLog # <<>> /\ IsSummary(callLog[Len(callLog)]))

\* a finished report whose second fetch failed and whose first and last
\* time-frames were analysed
C26_Witness ==
    /\ pc = "done"
    /\ Fetches[2][3] = "failed"
    /\ \E k \in DOMAIN callLog : IsAnalyze(callLog[k]) /\ callLog[k][2] = TIMEFRAME_CONFIGS[1].name
    /\ \E k \in DOMAIN callLog : IsAnalyze(callLog[k]) /\ callLog[k][2] = TIMEFRAME_CONFIGS[4].name

----------------------------------------------------------------------------
(* Properties of a report with a time-frame that has bars and no result     *)
(* (SpecReport)                                                             *)

\* the ladder positions whose bars were retrieved: the fetch succeeded and,
\* where the bars are resampled, at least 20 of them were left
RetrievedAt ==
    {i \in DOMAIN timeframes :
        /\ Fetches[i][3] = "ok"
        /\ (i \in ResampledAt) => (ResampledBars(i) >= 20)}

\* the retrieved time-frames on which no strategy gave a result
NoResultAt ==
    {i \in RetrievedAt :
        \A k \in DOMAIN callLog :
            (IsAnalyze(callLog[k]) /\ callLog[k][2] = TIMEFRAME_CONFIGS[i].name) =>
                \E s \in DOMAIN timeframes[i].strategies :
                    /\ strategies[s].name = callLog[k][3]
                    /\ IsError(timeframes[i].strategies[s])}

HasLine(i, label) ==
    \E k \in DOMAIN summary.details :
        /\ summary.details[k][1] = "line"
        /\ summary.details[k][2] = TIMEFRAME_CONFIGS[i].name
        /\ summary.details[k][3] = label

HasSomeLine(i) ==
    \E k \in DOMAIN summary.details :
        /\ summary.details[k][1] = "line"
        /\ summary.details[k][2] = TIMEFRAME_CONFIGS[i].name

\* C27: a time-frame whose bars were retrieved but for which every strategy
\* returned an insufficient-data error (verdict 'no valid data', total 0) is
\* still treated as a valid time-frame by _generate_summary and counted as
\* neither bullish nor bearish there: whenever such a time-frame is present the
\* overall conclusion is never 'strong bullish' or 'strong bearish', whereas a
\* time-frame with a time-frame-level error is ignored.
C27_NoResultTimeframeStillCounts ==
    (pc = "done") =>
        /\ \A i \in RetrievedAt : "error" \notin DOMAIN timeframes[i]
        /\ \A i \in NoResultAt :
               /\ timeframes[i].consensus.label = <<"no valid data">>
               /\ timeframes[i].consensus.total = 0
               /\ HasLine(i, <<"no valid data">>)
        /\ (NoResultAt # {}) =>
               /\ summary.conclusion[1] \notin {"strong bullish", "strong bearish"}
               /\ (Len(summary.conclusion) = 3) =>
                      (summary.conclusion[3] = Cardinality(RetrievedAt))
        /\ \A i \in DOMAIN timeframes \ RetrievedAt : ~HasSomeLine(i)

\* three time-frames: one failed to load, one has bars and no result, the
\* others are bullish; the conclusion is 'overall bullish', 2 of 3
C27_Witness ==
    /\ pc = "done"
    /\ Cardinality(NoResultAt) = 1
    /\ Cardinality(RetrievedAt) = 3
    /\ summary.conclusion = <<"overall bullish", 2, 3>>


----------------------------------------------------------------------------
(* Properties of the backtest strategies (SpecBacktest) *)

\* the strategy knows of its position: the stop of the position is set
StopSet == strat.stop_price # None

\* C28: while one position is held the stop only moves in the position's
\* favour: from one step to the next the stop of a long position never
\* decreases and the stop of a short position never increases, and the stop
\* is not reset while the position is still held.
C28_StopOnlyRatchets ==
    [][/\ cerebro.position > 0 /\ cerebro'.position > 0 /\ StopSet
          => /\ strat'.stop_price # None
             /\ strat'.stop_price.num >= strat.stop_price.num
       /\ cerebro.position < 0 /\ cerebro'.position < 0 /\ StopSet
          => /\ strat'.stop_price # None
             /\ strat'.stop_price.num <= strat.stop_price.num
       /\ StopSet /\ strat'.stop_price = None
          => cerebro'.position = 0]_vars

\* a long position whose trailing stop was raised above the entry price
C28_Witness ==
    /\ strat # None
    /\ cerebro.position > 0
    /\ StopSet
    /\ strat.trail_activated
    /\ strat.stop_price.num > strat.entry_price.num


\* the classes with a re-entry cooldown that C29 names
CooldownClasses == {"SwingStrategy", "OptimizedSwingV2"}

\* a step in which the strategy hands the broker an order
SubmitsOrder == Len(cerebro'.orders) > Len(cerebro.orders)

\* C29: in SwingStrategy and OptimizedSwingV2 an order is submitted only when
\* no earlier order is still with the broker (at most one outstanding order),
\* and an entry order submitted after a position was closed comes at least
\* reentry_cooldown bars after the bar on which the broker closed it.
C29_CooldownAndSingleOrder ==
    [][strat.params.cls \in CooldownClasses /\ SubmitsOrder
          => /\ cerebro.orders = <<>>
             /\ Len(cerebro'.orders) = 1
             /\ cerebro.position = 0 /\ cerebro.closed_at # None
                   => cerebro.len - cerebro.closed_at.num
                          >= strat.params.reentry_cooldown]_vars

\* a new entry order is with the broker after an earlier position was closed
C29_Witness ==
    /\ strat # None
    /\ strat.params.cls \in CooldownClasses
    /\ cerebro.closed_at # None
    /\ cerebro.position = 0
    /\ cerebro.orders # <<>>


\* the classes with a direction field that C30 names
DirectionClasses == {"OptimizedSwingStrategy", "OptimizedSwingV2"}

\* C30: in OptimizedSwingStrategy and OptimizedSwingV2, once the notifications
\* of a bar are delivered, direction is 0 whenever there is no position and no
\* pending order, and entry_price and stop_price are set exactly when a
\* position is held.
C30_DirectionMatchesPosition ==
    strat.params.cls \in DirectionClasses /\ cerebro.notifications = <<>>
       => /\ cerebro.position = 0 /\ cerebro.orders = <<>> => strat.direction = 0
          /\ strat.entry_price # None <=> cerebro.position # 0
          /\ strat.stop_price # None <=> cerebro.position # 0

====
